---- MODULE Spec2Model ----
(***************************************************************************)
(* Marketing-event pipeline: gateway (webhook ingestion, validation,       *)
(* publish), the shared NatsService broker client, and the collectors      *)
(* (queue-group subscription, persistence sink, outcome metrics).          *)
(***************************************************************************)
EXTENDS Integers, Sequences, FiniteSets, Bags, TLC

(***************************************************************************)
(* Bounds of the model.                                                    *)
(***************************************************************************)
MaxReq == 2
\* webhook calls made while the system goes through start-up, faults and shutdown
MaxColdCalls == 1
MaxTime == 1
\* webhook calls whose message may be under way at the same time
MaxInFlight == 2
\* connection failures and shutdown signals the environment may raise
MaxEnvEvents == 1

Req == 1..MaxReq
Times == 1..MaxTime
Replicas == {"c1", "c2"}
Gateway == "gateway"
Procs == {Gateway} \cup Replicas

(***************************************************************************)
(* JavaScript values.  A scalar is a tagged record; v is the string form   *)
(* of the value (numbers keep their decimal text).  The tag is the type    *)
(* zod's parser sees: NaN is "nan", not "number".                          *)
(***************************************************************************)
U == [t |-> "undefined", v |-> ""]
S(x) == [t |-> "string", v |-> x]
N(x) == [t |-> "number", v |-> x]
NaN == [t |-> "nan", v |-> "NaN"]
Null == [t |-> "null", v |-> ""]
\* a property whose value is the object that holds it
Circular == [t |-> "circular", v |-> ""]

\* JS truthiness of a scalar: undefined, null, "" and 0 are falsy.
Truthy(x) ==
  CASE x.t = "undefined" -> FALSE
    [] x.t = "null" -> FALSE
    [] x.t = "string" -> x.v # ""
    [] x.t = "number" -> x.v # "0"
    [] x.t = "nan" -> FALSE
    [] OTHER -> TRUE

\* a || b
OrElse(a, b) == IF Truthy(a) THEN a ELSE b

(***************************************************************************)
(* Raw webhook bodies.  Every body has the same record shape; t tells what *)
(* kind of JS value it is, and reading a property of a non-object (or an   *)
(* absent property) yields undefined.  extra is a key no schema names.     *)
(***************************************************************************)
NoLocation == [t |-> "undefined", country |-> U, city |-> U]
NoUser == [t |-> "undefined", userId |-> U, name |-> U, age |-> U, gender |-> U,
           location |-> NoLocation, username |-> U, followers |-> U]
NoData == [t |-> "undefined", user |-> NoUser, engagement |-> U]
NoBody == [t |-> "undefined", eventId |-> U, timestamp |-> U, source |-> U,
           funnelStage |-> U, eventType |-> U, data |-> NoData,
           correlationId |-> U, receivedAt |-> U, extra |-> U]

FacebookUser(age, gender) ==
  [NoUser EXCEPT !.t = "object", !.userId = S("user-123"), !.name = S("John Doe"),
                 !.age = age, !.gender = gender,
                 !.location = [t |-> "object", country |-> S("US"), city |-> S("New York")]]
TiktokUser(followers) ==
  [NoUser EXCEPT !.t = "object", !.userId = S("user-456"), !.username = S("johndoe_ttk"),
                 !.followers = followers]

EventBody(id, source, stage, type, user) ==
  [NoBody EXCEPT !.t = "object", !.eventId = S(id), !.timestamp = S("2024-01-15T10:00:00Z"),
                 !.source = source, !.funnelStage = S(stage), !.eventType = S(type),
                 !.data = [t |-> "object", user |-> user, engagement |-> S("engagement")]]

mockFacebookEvent == EventBody("fb-event-123", S("facebook"), "top", "ad.view",
                               FacebookUser(N("28"), S("male")))
mockTiktokEvent == EventBody("ttk-event-123", S("tiktok"), "bottom", "purchase",
                             TiktokUser(N("1500")))
\* a Facebook event whose eventType is the empty string (z.string() accepts it)
emptyTypeEvent == EventBody("fb-event-124", S("facebook"), "top", "",
                            FacebookUser(N("28"), S("male")))
\* { invalid: 'data' }
invalidEvent == [NoBody EXCEPT !.t = "object"]

\* the bodies webhook calls are made with
Bodies == {mockFacebookEvent, mockTiktokEvent, emptyTypeEvent, invalidEvent}

\* a 1000-character id with characters outside ASCII
RECURSIVE Repeat(_, _)
Repeat(str, n) == IF n = 0 THEN "" ELSE str \o Repeat(str, n - 1)
LongId == Repeat("trace-éñ", 125)

\* the x-correlation-id header: absent or a caller-supplied string
Headers == {U, S("corr-1"), S(LongId)}

\* Math.random() returns a double in [0, 1); every double is k / 2^m.
\* MaxPlaces bounds the doubles enumerated exhaustively: those of the
\* form k / 4^MaxPlaces, whose base-36 expansion has at most MaxPlaces digits.
MaxPlaces == 4

RECURSIVE Pow(_, _)
Pow(b, n) == IF n = 0 THEN 1 ELSE b * Pow(b, n - 1)

Chars36 == "0123456789abcdefghijklmnopqrstuvwxyz"
Digit36(d) == SubSeq(Chars36, d + 1, d + 1)

\* the n base-36 digits of the integer m < 36^n
RECURSIVE Fraction36(_, _)
Fraction36(m, n) == IF n = 0 THEN "" ELSE Fraction36(m \div 36, n - 1) \o Digit36(m % 36)

RECURSIVE StripZeros(_)
StripZeros(str) ==
  IF str # "" /\ SubSeq(str, Len(str), Len(str)) = "0"
    THEN StripZeros(SubSeq(str, 1, Len(str) - 1))
    ELSE str

\* (k / 4^n).toString(36): k / 4^n = k * 9^n / 36^n, printed without
\* trailing zeros; 0 prints as "0"
NumberToString36(k, n) ==
  LET f == StripZeros(Fraction36(k * Pow(9, n), n))
  IN IF f = "" THEN "0" ELSE "0." \o f

\* toString(36) of doubles that use the whole mantissa
TypicalRandomTexts == {"0.k3j9x0q2a7f", "0.z8v1m4c7pq2"}

\* the texts Math.random().toString(36) evaluates to
RandomTexts ==
  TypicalRandomTexts \cup {NumberToString36(k, MaxPlaces) : k \in 0..(Pow(4, MaxPlaces) - 1)}

\* String.prototype.substr(start, length)
Substr(str, start, length) ==
  SubSeq(str, start + 1, IF Len(str) < start + length THEN Len(str) ELSE start + length)

\* Math.random().toString(36).substr(2, 9) as drawn in the system runs
Suffixes == {Substr(t, 2, 9) : t \in TypicalRandomTexts}

(***************************************************************************)
(* zod schemas of validation.service.ts                                    *)
(***************************************************************************)
\* Variant that coerces numeric-looking strings.
ZodNumberCoerce(x) == x.t \in {"number", "string"}

ZodString(x) == x.t = "string"
ZodNumber(x) == x.t = "number"
ZodEnum(x, vals) == x.t = "string" /\ x.v \in vals
ZodLiteral(x, lit) == x.t = "string" /\ x.v = lit

EnvelopeShapeOk(d, lit) ==
  /\ d.t = "object"
  /\ ZodString(d.eventId)
  /\ ZodString(d.timestamp)
  /\ ZodLiteral(d.source, lit)
  /\ ZodEnum(d.funnelStage, {"top", "bottom"})
  /\ ZodString(d.eventType)
  /\ d.data.t = "object"
  /\ d.data.user.t = "object"
  /\ ZodString(d.data.user.userId)

FacebookEventSchema(d) ==
  /\ EnvelopeShapeOk(d, "facebook")
  /\ ZodString(d.data.user.name)
  /\ ZodNumber(d.data.user.age)
  /\ ZodEnum(d.data.user.gender, {"male", "female", "non-binary"})
  /\ d.data.user.location.t = "object"
  /\ ZodString(d.data.user.location.country)
  /\ ZodString(d.data.user.location.city)

TiktokEventSchema(d) ==
  /\ EnvelopeShapeOk(d, "tiktok")
  /\ ZodString(d.data.user.username)
  /\ ZodNumber(d.data.user.followers)

\* z.object strips the keys the schema does not name
\* Variant of a schema that lets unknown keys through.
FacebookParsedPassthrough(d) == d

FacebookParsed(d) ==
  [d EXCEPT !.correlationId = U, !.receivedAt = U, !.extra = U,
            !.data.user.username = U, !.data.user.followers = U]
TiktokParsed(d) ==
  [d EXCEPT !.correlationId = U, !.receivedAt = U, !.extra = U,
            !.data.user.name = U, !.data.user.age = U, !.data.user.gender = U,
            !.data.user.location = NoLocation]

NoError == [type |-> "none", message |-> ""]
BadRequestException(msg) == [type |-> "BadRequestException", message |-> msg]
Error(msg) == [type |-> "Error", message |-> msg]

TypeError(msg) == [type |-> "TypeError", message |-> msg]

\* the text of a ZodError: the issue zod reports first
ZodMessage(d, lit) ==
  IF d.t # "object" THEN "invalid_type"
  ELSE IF ~ZodLiteral(d.source, lit) THEN "invalid_literal: source"
  ELSE "invalid_type"
ZodMessages == {"invalid_type", "invalid_literal: source", "invalid_union"}

\* JSON.stringify throws a TypeError on a BigInt and on a cyclic structure
JSONStringifyThrows(d) ==
  \/ d.t = "bigint"
  \/ d.t = "object" /\ d.extra.t = "circular"

\* Variant whose union holds the Facebook schema only.
validateEventFacebookOnly(d) ==
  IF FacebookEventSchema(d)
    THEN [ok |-> TRUE, event |-> FacebookParsed(d), error |-> NoError]
    ELSE [ok |-> FALSE, event |-> NoBody,
          error |-> BadRequestException("Invalid event format: invalid_union")]

\* EventSchema = z.union([FacebookEventSchema, TiktokEventSchema]); parse
\* returns the first schema's output that matches, else throws a ZodError.
\* The catch block evaluates JSON.stringify(eventData) for the log line
\* before it throws the BadRequestException.
validateEvent(d) ==
  IF FacebookEventSchema(d)
    THEN [ok |-> TRUE, event |-> FacebookParsed(d), error |-> NoError]
  ELSE IF TiktokEventSchema(d)
    THEN [ok |-> TRUE, event |-> TiktokParsed(d), error |-> NoError]
  ELSE IF JSONStringifyThrows(d)
    THEN [ok |-> FALSE, event |-> NoBody,
          error |-> TypeError("Converting value to JSON")]
  ELSE [ok |-> FALSE, event |-> NoBody,
        error |-> BadRequestException("Invalid event format: invalid_union")]

\* Variant that reports the combined validator's message.
validateFacebookEventGenericMessage(d) ==
  IF FacebookEventSchema(d)
    THEN [ok |-> TRUE, event |-> FacebookParsed(d), error |-> NoError]
    ELSE [ok |-> FALSE, event |-> NoBody,
          error |-> BadRequestException("Invalid event format: "
                                          \o ZodMessage(d, "facebook"))]

validateFacebookEvent(d) ==
  IF FacebookEventSchema(d)
    THEN [ok |-> TRUE, event |-> FacebookParsed(d), error |-> NoError]
    ELSE [ok |-> FALSE, event |-> NoBody,
          error |-> BadRequestException("Invalid Facebook event format: "
                                          \o ZodMessage(d, "facebook"))]

validateTiktokEvent(d) ==
  IF TiktokEventSchema(d)
    THEN [ok |-> TRUE, event |-> TiktokParsed(d), error |-> NoError]
    ELSE [ok |-> FALSE, event |-> NoBody,
          error |-> BadRequestException("Invalid TikTok event format: "
                                          \o ZodMessage(d, "tiktok"))]

(***************************************************************************)
(* Correlation ids and subjects                                            *)
(***************************************************************************)
\* `gateway-${Date.now()}-${Math.random().toString(36).substr(2, 9)}`
generateCorrelationId(now, suffix) == S("gateway-" \o ToString(now) \o "-" \o suffix)

\* Variant that publishes everything on one subject.
buildSubjectFixed(event) == "events.facebook.top"

\* `events.${event.source}.${event.funnelStage}`
buildSubject(event) == "events." \o event.source.v \o "." \o event.funnelStage.v

Subjects == {"events.facebook.top", "events.facebook.bottom",
             "events.tiktok.top", "events.tiktok.bottom"}


FacebookSubjects == <<"events.facebook.top", "events.facebook.bottom">>
TiktokSubjects == <<"events.tiktok.top", "events.tiktok.bottom">>
FacebookQueues == <<"facebook-collector-top", "facebook-collector-bottom">>
TiktokQueues == <<"tiktok-collector-top", "tiktok-collector-bottom">>

\* COLLECTOR_TYPE in the environment of a replica: unset or a string
EnvCollectorTypes == {U, S("facebook"), S("tiktok"), S("unknown"), S("FACEBOOK")}
\* this.collectorType = process.env.COLLECTOR_TYPE || 'unknown'
CollectorTypes == {OrElse(e, S("unknown")).v : e \in EnvCollectorTypes}
\* the deployments: a Facebook collector next to a second replica of any type
Deployments == {[p \in Replicas |-> IF p = "c1" THEN t ELSE "facebook"] : t \in CollectorTypes}

(***************************************************************************)
(* Wire format: NatsService sends JSON.stringify(data) and the            *)
(* subscription loop reads JSON.parse(decode(msg.data)).  A property whose *)
(* value is undefined is omitted from the text and reads back as           *)
(* undefined; strings and finite numbers keep their value.  Bytes put on   *)
(* a subject by another publisher need not be JSON at all.                 *)
(***************************************************************************)
\* Variant that writes numbers as quoted text.
JSONScalarQuotesNumbers(x) ==
  IF x.t = "nan" THEN Null ELSE IF x.t = "number" THEN S(x.v) ELSE x

\* JSON.stringify writes NaN as null
JSONScalar(x) == IF x.t = "nan" THEN Null ELSE x
JSONLocation(l) ==
  IF l.t # "object" THEN l
  ELSE [l EXCEPT !.country = JSONScalar(@), !.city = JSONScalar(@)]
JSONUser(u) ==
  IF u.t # "object" THEN u
  ELSE [u EXCEPT !.userId = JSONScalar(@), !.name = JSONScalar(@), !.age = JSONScalar(@),
                 !.gender = JSONScalar(@), !.location = JSONLocation(@),
                 !.username = JSONScalar(@), !.followers = JSONScalar(@)]
JSONData(x) ==
  IF x.t # "object" THEN x
  ELSE [x EXCEPT !.user = JSONUser(@), !.engagement = JSONScalar(@)]
\* the value the JSON text of d denotes
ToJSON(d) ==
  IF d.t # "object" THEN d
  ELSE [d EXCEPT !.eventId = JSONScalar(@), !.timestamp = JSONScalar(@),
                 !.source = JSONScalar(@), !.funnelStage = JSONScalar(@),
                 !.eventType = JSONScalar(@), !.data = JSONData(@),
                 !.correlationId = JSONScalar(@), !.receivedAt = JSONScalar(@),
                 !.extra = JSONScalar(@)]

JSONStringify(d) == [json |-> TRUE, text |-> ToJSON(d)]
NotJSON == [json |-> FALSE, text |-> NoBody]
\* JSON.parse throws a SyntaxError on text that is not JSON
JSONParseThrows(p) == ~p.json
JSONParse(p) == p.text

(***************************************************************************)
(* State                                                                   *)
(***************************************************************************)
VARIABLES
  req,          \* gateway: per webhook call [pc, body, header, event, error, response]
  calls,        \* gateway: metric calls made by each webhook call, in order
  counters,     \* per process: prom-client counters and histogram, by label set
  natsLog,      \* messages for which connection.publish returned normally
  conn,         \* per process: NatsService.connection (and its socket state)
  outbound,     \* per process: bytes the client has buffered towards the broker
  phase,        \* per process: position in module start-up / shutdown
  collectorType,\* per replica: COLLECTOR_TYPE
  subscriptions,\* per process: NatsService.subscriptions
  loops,        \* per process and subject: the for-await message loop
  life,         \* per message: position in the Received..Persisted/Failed machine
  invocations,  \* per message: the replicas whose handler was invoked, in order
  colCalls,     \* collector: metric calls made while handling each message
  events,       \* rows created by EventRepository.saveEvent
  routed,       \* per message: the broker's routing decision
  streams,      \* broker: subjects of the declared 'marketing-events' stream
  envEvents,    \* environment: connection failures and shutdown signals so far
  probe         \* the latest direct call of a ValidationService method and its outcome

vars == <<req, calls, counters, natsLog, conn, outbound, phase, collectorType,
          subscriptions, loops, life, invocations, colCalls, events, routed, streams,
          envEvents, probe>>

gatewayVars == <<req, calls, natsLog>>
handlerVars == <<invocations, colCalls, events>>

NoResponse == [kind |-> "none", success |-> FALSE, eventId |-> U, correlationId |-> U,
               error |-> NoError]
NoMsg == [subject |-> "", payload |-> JSONStringify(NoBody), req |-> 0]
NoLoop == [state |-> "none", queue |-> U, pending |-> <<>>, inflight |-> NoMsg]
NoRoute == [done |-> FALSE, members |-> {}, to |-> {}]
Absent == "<absent>"
NoProbe == [method |-> "none", input |-> NoBody,
            result |-> [ok |-> FALSE, event |-> NoBody, error |-> NoError]]

MetricTypes == {"accepted", "processed", "failed", "duration"}
NoCounters == [m \in MetricTypes |-> EmptyBag]

\* prom-client renders a label value as text
LabelText(x) == x.v

Labels(collector, source, eventType, funnelStage, error) ==
  [collector_type |-> collector, source |-> source, event_type |-> eventType,
   funnel_stage |-> funnelStage, error |-> error]

\* Variant in which a recording overwrites the counter (a lost update).
recordMetricOverwrites(cs, type, labels) ==
  [cs EXCEPT ![type] = SetToBag({labels})]

\* MetricsService.recordMetric / recordProcessingDuration: the counter (or
\* histogram) of that type is incremented under the given label set.
recordMetric(cs, type, labels) ==
  [cs EXCEPT ![type] = @ (+) SetToBag({labels})]

Init ==
  /\ req = [r \in Req |-> [pc |-> "idle", body |-> NoBody, header |-> U,
                           event |-> NoBody, error |-> NoError, response |-> NoResponse]]
  /\ calls = [r \in Req |-> <<>>]
  /\ counters = [p \in Procs |-> NoCounters]
  /\ natsLog = <<>>
  /\ conn = [p \in Procs |-> "null"]
  /\ outbound = [p \in Procs |-> <<>>]
  /\ phase = [p \in Procs |-> "down"]
  /\ collectorType \in Deployments
  /\ subscriptions = [p \in Procs |-> <<>>]
  /\ loops = [p \in Replicas |-> [s \in Subjects |-> NoLoop]]
  /\ life = [r \in Req |-> "None"]
  /\ invocations = [r \in Req |-> <<>>]
  /\ colCalls = [r \in Req |-> <<>>]
  /\ events = {}
  /\ routed = [r \in Req |-> NoRoute]
  /\ streams = {}
  /\ envEvents = 0
  /\ probe = NoProbe

(***************************************************************************)
(* Gateway: WebhookController.receiveWebhook / WebhookService.processEvent *)
(***************************************************************************)
\* a call is under way until it has answered and its message, if any, has
\* left every buffer and handler
Buffered(r) ==
  \/ \E p \in Procs : \E i \in 1..Len(outbound[p]) : outbound[p][i].req = r
  \/ \E p \in Replicas, s \in Subjects :
        \/ loops[p][s].inflight.req = r
        \/ \E i \in 1..Len(loops[p][s].pending) : loops[p][s].pending[i].req = r
InFlight(r) == req[r].pc \in {"received", "validated", "published"} \/ Buffered(r)

\* The HTTP request arrives and the controller calls processEvent.
ReceiveWebhook(r, body, header) ==
  /\ req[r].pc = "idle"
  /\ r > 1 => req[r - 1].pc # "idle"
  /\ Cardinality({q \in Req : InFlight(q)}) < MaxInFlight
  /\ phase[Gateway] \in {"running", "draining", "stopped"}
  /\ req' = [req EXCEPT ![r].pc = "received", ![r].body = body, ![r].header = header]
  /\ life' = [life EXCEPT ![r] = "Received"]
  /\ UNCHANGED <<probe, calls, counters, natsLog, conn, outbound, phase, collectorType,
                 subscriptions, loops, invocations, colCalls, events, routed, streams, envEvents>>

\* labels of the catch block: eventData?.source || 'unknown', ...
FailedLabels(eventData, error) ==
  Labels(Absent, LabelText(OrElse(eventData.source, S("unknown"))),
         LabelText(OrElse(eventData.eventType, S("unknown"))), Absent, error.message)

AcceptedLabels(event) ==
  Labels(Absent, LabelText(event.source), LabelText(event.eventType),
         LabelText(event.funnelStage), Absent)

DurationLabels(event) ==
  Labels(Absent, LabelText(event.source), LabelText(event.eventType), Absent, Absent)

\* Variant of the failure path in which the controller answers with a
\* generic error in place of the one it caught.
ProcessEventFailsWrapped(r, pc, error) ==
  /\ req' = [req EXCEPT ![r].pc = pc, ![r].error = error,
                        ![r].response = [NoResponse EXCEPT !.kind = "error",
                                           !.error = Error("Internal server error")]]
  /\ calls' = [calls EXCEPT ![r] = Append(@, [type |-> "failed",
                                               labels |-> FailedLabels(req[r].body, error)])]
  /\ counters' = [counters EXCEPT ![Gateway] =
                    recordMetric(@, "failed", FailedLabels(req[r].body, error))]
  /\ life' = [life EXCEPT ![r] = "Failed"]

\* the catch block of processEvent followed by the controller's rethrow
ProcessEventFails(r, pc, error) ==
  /\ req' = [req EXCEPT ![r].pc = pc, ![r].error = error,
                        ![r].response = [NoResponse EXCEPT !.kind = "error", !.error = error]]
  /\ calls' = [calls EXCEPT ![r] = Append(@, [type |-> "failed",
                                               labels |-> FailedLabels(req[r].body, error)])]
  /\ counters' = [counters EXCEPT ![Gateway] =
                    recordMetric(@, "failed", FailedLabels(req[r].body, error))]
  /\ life' = [life EXCEPT ![r] = "Failed"]

\* validateEvent, then the accepted metric or the failure path
ValidateStep(r) ==
  /\ req[r].pc = "received"
  /\ phase[Gateway] # "exited"
  /\ LET res == validateEvent(req[r].body) IN
       IF res.ok
         THEN /\ req' = [req EXCEPT ![r].pc = "validated", ![r].event = res.event]
              /\ calls' = [calls EXCEPT ![r] = Append(@, [type |-> "accepted",
                                                           labels |-> AcceptedLabels(res.event)])]
              /\ counters' = [counters EXCEPT ![Gateway] =
                                recordMetric(@, "accepted", AcceptedLabels(res.event))]
              /\ life' = [life EXCEPT ![r] = "Validated"]
         ELSE ProcessEventFails(r, "rejected", res.error)
  /\ UNCHANGED <<probe, natsLog, conn, outbound, phase, collectorType, subscriptions, loops,
                 invocations, colCalls, events, routed, streams, envEvents>>

\* Variant that always generates the envelope's correlation id.
PublishEnvelopeFreshId(event, correlationId, now, suffix) ==
  [event EXCEPT !.correlationId = generateCorrelationId(now, suffix),
                !.receivedAt = S(ToString(now))]

\* { ...event, correlationId: correlationId || generateCorrelationId(),
\*   receivedAt: new Date().toISOString() }
PublishEnvelope(event, correlationId, now, suffix) ==
  [event EXCEPT !.correlationId = OrElse(correlationId, generateCorrelationId(now, suffix)),
                !.receivedAt = S(ToString(now))]

\* NatsService.getConnection
getConnection(p) == conn[p] # "null"

\* Outcomes of connection.publish by socket state: an open socket takes the
\* message; a closed connection throws; while the client is reconnecting it
\* buffers the message, or throws once its buffer is exhausted.
PublishOutcomes(p) ==
  CASE conn[p] = "open" -> {"sent"}
    [] conn[p] = "reconnecting" -> {"sent", "throws"}
    [] OTHER -> {"throws"}

\* MessagingRepository.publishEvent -> NatsService.publishToStream
PublishStep(r) ==
  /\ req[r].pc = "validated"
  /\ phase[Gateway] # "exited"
  /\ \E now \in Times, suffix \in Suffixes :
       LET envelope == PublishEnvelope(req[r].event, req[r].header, now, suffix)
           msg == [subject |-> buildSubject(req[r].event),
                   payload |-> JSONStringify(envelope), req |-> r]
       IN IF ~getConnection(Gateway)
            THEN /\ ProcessEventFails(r, "publishFailed", Error("NATS connection not established"))
                 /\ UNCHANGED <<natsLog, outbound>>
            ELSE \E outcome \in PublishOutcomes(Gateway) :
                   IF outcome = "sent"
                     THEN /\ natsLog' = Append(natsLog, msg)
                          /\ outbound' = [outbound EXCEPT ![Gateway] = Append(@, msg)]
                          /\ req' = [req EXCEPT ![r].pc = "published"]
                          /\ life' = [life EXCEPT ![r] = "Published"]
                          /\ UNCHANGED <<calls, counters>>
                     ELSE /\ ProcessEventFails(r, "publishFailed", Error("CONNECTION_CLOSED"))
                          /\ UNCHANGED <<natsLog, outbound>>
  /\ UNCHANGED <<probe, conn, phase, collectorType, subscriptions, loops, invocations,
                 colCalls, events, routed, streams, envEvents>>

\* Variant of the success path that omits the processed metric.
ProcessedCallsDurationOnly(event) ==
  << [type |-> "duration", labels |-> DurationLabels(event)] >>

\* the metric calls processEvent makes once publishEvent has resolved:
\* recordMetric('processed', ...) and recordProcessingDuration(...)
ProcessedCalls(event) ==
  << [type |-> "processed", labels |-> AcceptedLabels(event)],
     [type |-> "duration", labels |-> DurationLabels(event)] >>

RECURSIVE recordAll(_, _)
recordAll(cs, cl) ==
  IF cl = <<>> THEN cs ELSE recordAll(recordMetric(cs, Head(cl).type, Head(cl).labels), Tail(cl))

\* after the publish resolved: processed metric, duration, the service's
\* result, and the controller's response
RespondStep(r) ==
  /\ req[r].pc = "published"
  /\ phase[Gateway] # "exited"
  /\ \E now \in Times, suffix \in Suffixes :
       req' = [req EXCEPT ![r].pc = "responded",
                 ![r].response = [NoResponse EXCEPT !.kind = "ok", !.success = TRUE,
                    !.eventId = req[r].event.eventId,
                    !.correlationId = OrElse(req[r].header,
                                             generateCorrelationId(now, suffix))]]
  /\ calls' = [calls EXCEPT ![r] = @ \o ProcessedCalls(req[r].event)]
  /\ counters' = [counters EXCEPT ![Gateway] = recordAll(@, ProcessedCalls(req[r].event))]
  /\ UNCHANGED <<probe, natsLog, conn, outbound, phase, collectorType, subscriptions, loops,
                 life, invocations, colCalls, events, routed, streams, envEvents>>

(***************************************************************************)
(* NatsService: connection lifecycle                                       *)
(***************************************************************************)
\* Variant in which a rejected module init leaves the process running.
ProcessSurvives(ls) == ls

\* bootstrap()'s catch: a rejected module init ends the process
ProcessExit(ls) == [s \in Subjects |-> [ls[s] EXCEPT !.state = "closed", !.pending = <<>>,
                                                     !.inflight = NoMsg]]

\* NatsService.onModuleInit -> connect()
NatsConnect(p) ==
  /\ phase[p] = "down"
  /\ \E ok \in (IF envEvents < MaxEnvEvents THEN BOOLEAN ELSE {TRUE}) :
       IF ok
         THEN /\ conn' = [conn EXCEPT ![p] = "open"]
              /\ phase' = [phase EXCEPT ![p] = IF p = Gateway THEN "running" ELSE "connected"]
              /\ UNCHANGED envEvents
         ELSE /\ phase' = [phase EXCEPT ![p] = "exited"]
              /\ envEvents' = envEvents + 1
              /\ UNCHANGED conn
  /\ UNCHANGED <<probe, gatewayVars, handlerVars, counters, outbound, collectorType, subscriptions,
                 loops, life, routed, streams>>

\* the socket drops; the client starts reconnecting and the broker forgets
\* the connection's subscriptions until it is back
ConnectionLost(p) ==
  /\ conn[p] = "open"
  /\ envEvents < MaxEnvEvents
  /\ envEvents' = envEvents + 1
  /\ conn' = [conn EXCEPT ![p] = "reconnecting"]
  /\ UNCHANGED <<probe, gatewayVars, handlerVars, counters, outbound, phase, collectorType,
                 subscriptions, loops, life, routed, streams>>

Reconnected(p) ==
  /\ conn[p] = "reconnecting"
  /\ conn' = [conn EXCEPT ![p] = "open"]
  /\ UNCHANGED <<probe, gatewayVars, handlerVars, counters, outbound, phase, collectorType,
                 subscriptions, loops, life, routed, streams, envEvents>>

\* the reconnect attempts are used up: the connection closes for good, its
\* buffered bytes are lost and its subscription iterators end
ReconnectGaveUp(p) ==
  /\ conn[p] = "reconnecting"
  /\ conn' = [conn EXCEPT ![p] = "closed"]
  /\ outbound' = [outbound EXCEPT ![p] = <<>>]
  /\ loops' = IF p \in Replicas
                THEN [loops EXCEPT ![p] = [s \in Subjects |->
                        IF loops[p][s].state = "none" THEN loops[p][s]
                        ELSE [loops[p][s] EXCEPT !.state = "closed", !.pending = <<>>]]]
                ELSE loops
  /\ UNCHANGED <<probe, gatewayVars, handlerVars, counters, phase, collectorType, subscriptions,
                 life, routed, streams, envEvents>>

\* NatsService.isConnected: connection.closed() returns a promise (connect()
\* chains .then on it), and a promise object is truthy whatever its state.
closed(p) == [t |-> "object", v |-> IF conn[p] = "closed" THEN "resolved" ELSE "pending"]
isConnected(p) == conn[p] # "null" /\ ~Truthy(closed(p))

\* HealthController.checkReadiness: the nats indicator
readinessNats(p) == IF isConnected(p) THEN "up" ELSE "down"

\* NatsService.disconnect up to `await this.connection.drain()`
DisconnectBegin(p) ==
  /\ phase[p] = "running"
  /\ envEvents < MaxEnvEvents
  /\ envEvents' = envEvents + 1
  /\ IF conn[p] # "null"
       THEN /\ subscriptions' = [subscriptions EXCEPT ![p] = <<>>]
            /\ loops' = IF p \in Replicas
                          THEN [loops EXCEPT ![p] = [s \in Subjects |->
                                  IF loops[p][s].state = "active"
                                    THEN [loops[p][s] EXCEPT !.state = "draining"]
                                    ELSE loops[p][s]]]
                          ELSE loops
            /\ phase' = [phase EXCEPT ![p] = "draining"]
       ELSE /\ phase' = [phase EXCEPT ![p] = "stopped"]
            /\ UNCHANGED <<subscriptions, loops>>
  /\ UNCHANGED <<probe, gatewayVars, handlerVars, counters, conn, outbound, collectorType,
                 life, routed, streams>>

\* connection.drain() rejects with CONNECTION_CLOSED on a connection that
\* has closed
DrainRejects(connection) == connection = "closed"

\* the rest of disconnect: close(), connection = null, jetStream = null;
\* when drain rejects, disconnect rejects before them and the rejection,
\* which gracefulShutdown leaves unhandled, ends the process
DisconnectEnd(p) ==
  /\ phase[p] = "draining"
  /\ conn[p] = "open" => outbound[p] = <<>>
  /\ IF DrainRejects(conn[p])
       THEN /\ phase' = [phase EXCEPT ![p] = "exited"]
            /\ loops' = IF p \in Replicas THEN [loops EXCEPT ![p] = ProcessExit(@)] ELSE loops
            /\ UNCHANGED conn
       ELSE /\ conn' = [conn EXCEPT ![p] = "null"]
            /\ phase' = [phase EXCEPT ![p] = "stopped"]
            /\ UNCHANGED loops
  /\ outbound' = [outbound EXCEPT ![p] = <<>>]
  /\ UNCHANGED <<probe, gatewayVars, handlerVars, counters, collectorType, subscriptions,
                 life, routed, streams, envEvents>>

\* gracefulShutdown: process.exit(0) once app.close() has returned
GracefulExit(p) ==
  /\ phase[p] = "stopped"
  /\ phase' = [phase EXCEPT ![p] = "exited"]
  /\ loops' = IF p \in Replicas THEN [loops EXCEPT ![p] = ProcessExit(@)] ELSE loops
  /\ UNCHANGED <<probe, gatewayVars, handlerVars, counters, conn, outbound, collectorType,
                 subscriptions, life, routed, streams, envEvents>>


(***************************************************************************)
(* Collector start-up: CollectorService.onModuleInit                       *)
(***************************************************************************)
\* NatsService.createStream: js.streams.add creates the stream, reports 10058
\* when it exists already, or fails (JetStream unavailable)
StreamAddResults ==
  (IF streams = {} THEN {"created"} ELSE {"created", "exists"})
    \cup (IF envEvents < MaxEnvEvents THEN {"error"} ELSE {})

\* what js.streams.add throws: nothing, the 10058 error, or another error
StreamAddThrows(result) == IF result = "created" THEN "none" ELSE result
\* createStream's catch: 10058 is logged, anything else is thrown again
createStreamCatch(thrown) == IF thrown = "exists" THEN "none" ELSE thrown
\* ensureStream's catch: logs at debug level, throws nothing
ensureStreamCatch(thrown) == "none"

\* Variant in which neither catch block exists.
EnsureStreamUncaught(result) == StreamAddThrows(result)

\* what ensureStream throws to initializeStreams
EnsureStreamThrows(result) == ensureStreamCatch(createStreamCatch(StreamAddThrows(result)))

\* MessagingRepository.initializeStreams -> NatsService.ensureStream; an
\* error would travel through onModuleInit to bootstrap's catch
InitializeStreams(p) ==
  /\ p \in Replicas
  /\ phase[p] = "connected"
  /\ \E result \in StreamAddResults :
       /\ streams' = IF result = "created" THEN Subjects ELSE streams
       /\ envEvents' = IF result = "error" THEN envEvents + 1 ELSE envEvents
       /\ IF EnsureStreamThrows(result) = "none"
            THEN /\ phase' = [phase EXCEPT ![p] = "streams"]
                 /\ UNCHANGED loops
            ELSE /\ phase' = [phase EXCEPT ![p] = "exited"]
                 /\ loops' = [loops EXCEPT ![p] = ProcessExit(@)]
  /\ UNCHANGED <<probe, gatewayVars, handlerVars, counters, conn, outbound, collectorType,
                 subscriptions, life, routed>>

\* Variant that subscribes to the top subject twice.
OwnSubjectsTopTwice(type) ==
  CASE type = "facebook" -> <<"events.facebook.top", "events.facebook.top">>
    [] type = "tiktok" -> <<"events.tiktok.top", "events.tiktok.top">>
    [] OTHER -> <<>>

\* the subjects and queue names a collector type subscribes with
OwnSubjects(type) ==
  CASE type = "facebook" -> FacebookSubjects
    [] type = "tiktok" -> TiktokSubjects
    [] OTHER -> <<>>
OwnQueues(type) ==
  CASE type = "facebook" -> FacebookQueues
    [] type = "tiktok" -> TiktokQueues
    [] OTHER -> <<>>

\* Variant that subscribes without a queue group.
SubscribeOptionsNoQueue(durableName) == U

\* the options MessagingRepository.subscribe hands on: { queue: durableName }
SubscribeOptions(durableName) == S(durableName)

\* Outcomes of connection.subscribe by socket state
SubscribeOutcomes(p) ==
  CASE conn[p] = "open" -> {"registered"}
    [] conn[p] = "reconnecting" -> {"registered", "throws"}
    [] OTHER -> {"throws"}

\* one `await this.messagingRepository.subscribe(...)` of
\* subscribeToFacebookEvents / subscribeToTiktokEvents
SubscribeNext(p) ==
  /\ p \in Replicas
  /\ phase[p] \in {"streams", "sub1"}
  /\ collectorType[p] \in {"facebook", "tiktok"}
  /\ LET i == IF phase[p] = "streams" THEN 1 ELSE 2
         subject == OwnSubjects(collectorType[p])[i]
         queue == SubscribeOptions(OwnQueues(collectorType[p])[i])
     IN \E outcome \in (IF getConnection(p) THEN SubscribeOutcomes(p) ELSE {"throws"}) :
          IF outcome = "registered"
            THEN /\ loops' = [loops EXCEPT ![p][subject] =
                                [state |-> "active", queue |-> queue, pending |-> <<>>,
                                 inflight |-> NoMsg]]
                 /\ subscriptions' = [subscriptions EXCEPT ![p] = Append(@, subject)]
                 /\ phase' = [phase EXCEPT ![p] = IF i = 1 THEN "sub1" ELSE "running"]
            ELSE /\ phase' = [phase EXCEPT ![p] = "exited"]
                 /\ loops' = [loops EXCEPT ![p] = ProcessExit(@)]
                 /\ UNCHANGED subscriptions
  /\ UNCHANGED <<probe, gatewayVars, handlerVars, counters, conn, outbound, collectorType,
                 life, routed, streams, envEvents>>

\* the else branch of onModuleInit: warn, subscribe to nothing
UnknownCollectorType(p) ==
  /\ p \in Replicas
  /\ phase[p] = "streams"
  /\ collectorType[p] \notin {"facebook", "tiktok"}
  /\ phase' = [phase EXCEPT ![p] = "running"]
  /\ UNCHANGED <<probe, gatewayVars, handlerVars, counters, conn, outbound, collectorType,
                 subscriptions, loops, life, routed, streams, envEvents>>

(***************************************************************************)
(* Broker: core publish/subscribe with queue groups                        *)
(***************************************************************************)
\* subscriptions the broker currently knows for a subject (a subscription
\* whose consuming loop has ended stays registered until it is drained)
Members(subject) ==
  {q \in Replicas : loops[q][subject].state \in {"active", "dead"} /\ conn[q] = "open"}

\* A message goes to every plain subscriber and to one member of each queue
\* group.
Recipients(subject) ==
  {R \in SUBSET Members(subject) :
     /\ \A q \in Members(subject) : loops[q][subject].queue = U => q \in R
     /\ \A q \in Members(subject) : loops[q][subject].queue # U =>
          Cardinality({x \in R : loops[x][subject].queue = loops[q][subject].queue}) = 1}

\* the client writes its oldest buffered message to the socket and the
\* broker routes it
Route(p) ==
  /\ conn[p] = "open"
  /\ outbound[p] # <<>>
  /\ LET msg == Head(outbound[p]) IN
       \E R \in Recipients(msg.subject) :
         /\ loops' = [q \in Replicas |->
                        IF q \in R
                          THEN [loops[q] EXCEPT ![msg.subject].pending = Append(@, msg)]
                          ELSE loops[q]]
         /\ routed' = [routed EXCEPT ![msg.req] =
                         [done |-> TRUE, members |-> Members(msg.subject), to |-> R]]
  /\ outbound' = [outbound EXCEPT ![p] = Tail(@)]
  /\ UNCHANGED <<probe, gatewayVars, handlerVars, counters, conn, phase, collectorType,
                 subscriptions, life, streams, envEvents>>

(***************************************************************************)
(* Collector: the message loop of NatsService.subscribe and the handler    *)
(***************************************************************************)
CollectorLabels(p, event, funnelStage, error) ==
  Labels(collectorType[p], LabelText(event.source), LabelText(event.eventType),
         funnelStage, error)

\* `const correlationId = data.correlationId` throws a TypeError when the
\* payload is the JSON text null
CorrelationIdThrows(data) == data.t \in {"null", "undefined"}

\* Variant whose loop body calls the callback without awaiting it.
CallbackNotAwaited(p, s) == TRUE

\* `await callback(data)`: the loop body ends, and the iterator is asked for
\* the next message, only when the previous callback has settled
CallbackSettled(p, s) == loops[p][s].inflight = NoMsg

\* The loop takes the next message.  JSON.parse may throw into the loop's
\* catch, and reading data.correlationId may throw into the callback's catch:
\* both only log, and the message is gone.  Otherwise the callback calls the
\* handler, which records the accepted metric and awaits
\* EventRepository.saveEvent.
HandleMessage(p, s) ==
  /\ phase[p] # "exited"
  /\ loops[p][s].state \in {"active", "draining"}
  /\ CallbackSettled(p, s)
  /\ loops[p][s].pending # <<>>
  /\ LET msg == Head(loops[p][s].pending)
         data == JSONParse(msg.payload)
         labels == CollectorLabels(p, data, LabelText(data.funnelStage), Absent)
     IN IF JSONParseThrows(msg.payload) \/ CorrelationIdThrows(data)
          THEN /\ loops' = [loops EXCEPT ![p][s].pending = Tail(@)]
               /\ life' = [life EXCEPT ![msg.req] = "Failed"]
               /\ UNCHANGED <<invocations, colCalls, counters>>
          ELSE /\ loops' = [loops EXCEPT ![p][s].pending = Tail(@), ![p][s].inflight = msg]
               /\ invocations' = [invocations EXCEPT ![msg.req] = Append(@, p)]
               /\ colCalls' = [colCalls EXCEPT ![msg.req] =
                                 Append(@, [type |-> "accepted", labels |-> labels])]
               /\ counters' = [counters EXCEPT ![p] = recordMetric(@, "accepted", labels)]
               /\ life' = [life EXCEPT ![msg.req] = "Delivered"]
  /\ UNCHANGED <<probe, gatewayVars, conn, outbound, phase, collectorType, subscriptions,
                 events, routed, streams, envEvents>>

\* the three catch blocks between saveEvent and the message loop:
\* CollectorService.handleFacebookEvent / handleTiktokEvent logs and returns,
handleEventCatch(error) == NoError
\* the MessagingRepository.subscribe callback logs and returns,
subscribeCallbackCatch(error) == NoError
\* and the loop body of NatsService.subscribe logs and takes the next message.
messageLoopCatch(error) == NoError

\* Variant in which no catch block stands between handler and loop.
EscapesLoopUncaught(error) == error

\* what reaches the `for await` statement itself when the handler threw
EscapesLoop(error) == messageLoopCatch(subscribeCallbackCatch(handleEventCatch(error)))

\* Variant that puts a failed message back at the end of the queue.
PendingRequeued(pending, msg) == Append(pending, msg)

\* the loop neither acknowledges nor re-queues: a failed message is gone
PendingAfterFailure(pending, msg) == pending

\* EventRepository.saveEvent: prisma.event.create never happens when
\* JSON.parse(JSON.stringify(event.data.engagement)) throws
SaveOutcomes(data) ==
  IF data.data.engagement.t = "undefined" THEN {FALSE} ELSE BOOLEAN

\* what saveEvent throws: reading event.data.user of a payload without data,
\* JSON.parse(undefined), or the error of prisma.event.create
SaveError(data) ==
  IF data.data.t # "object"
    THEN TypeError("Cannot read properties of undefined (reading 'user')")
  ELSE IF data.data.user.t = "undefined" \/ data.data.engagement.t = "undefined"
    THEN [type |-> "SyntaxError", message |-> "\"undefined\" is not valid JSON"]
  ELSE Error("Database error")

\* x || null
ColumnOrNull(x) == OrElse(x, Null)

\* the data of prisma.event.create
EventRow(data, correlationId, r) ==
  LET user == data.data.user IN
  [eventId |-> data.eventId, source |-> data.source, funnelStage |-> data.funnelStage,
   eventType |-> data.eventType, correlationId |-> correlationId, req |-> r,
   userId |-> ColumnOrNull(user.userId),
   userName |-> OrElse(user.name, ColumnOrNull(user.username)),
   userAge |-> ColumnOrNull(user.age),
   userGender |-> ColumnOrNull(user.gender),
   userCountry |-> ColumnOrNull(user.location.country),
   userCity |-> ColumnOrNull(user.location.city),
   userFollowers |-> ColumnOrNull(user.followers)]

\* the metric calls of EventProcessingService.processEvent once saveEvent
\* has resolved: recordMetric('processed', ...), recordProcessingDuration
SavedCalls(p, data) ==
  << [type |-> "processed",
      labels |-> CollectorLabels(p, data, LabelText(data.funnelStage), Absent)],
     [type |-> "duration", labels |-> CollectorLabels(p, data, Absent, Absent)] >>

\* Variant that observes the duration of a failed save as well.
SaveFailedCallsWithDuration(p, data, error) ==
  << [type |-> "failed", labels |-> CollectorLabels(p, data, Absent, error.message)],
     [type |-> "duration", labels |-> CollectorLabels(p, data, Absent, Absent)] >>

\* the metric call of its catch block: recordMetric('failed', ...)
SaveFailedCalls(p, data, error) ==
  << [type |-> "failed", labels |-> CollectorLabels(p, data, Absent, error.message)] >>

\* Variant in which the callback makes up an id for an envelope without one.
CallbackCorrelationIdOrFresh(data) ==
  OrElse(data.correlationId, generateCorrelationId(1, "k3j9x0q2a"))

\* `const correlationId = data.correlationId`, handed on unchanged by the
\* handler and processEvent to saveEvent(event, correlationId)
CallbackCorrelationId(data) == data.correlationId

\* saveEvent settles: processed metric and duration, or failed metric and
\* the error travelling up to the loop
SaveEventResult(p, s) ==
  /\ phase[p] # "exited"
  /\ loops[p][s].inflight # NoMsg
  /\ LET msg == loops[p][s].inflight
         data == JSONParse(msg.payload)
         error == SaveError(data)
     IN \E ok \in SaveOutcomes(data) :
          IF ok
            THEN /\ events' = events \cup {EventRow(data, CallbackCorrelationId(data), msg.req)}
                 /\ colCalls' = [colCalls EXCEPT ![msg.req] = @ \o SavedCalls(p, data)]
                 /\ counters' = [counters EXCEPT ![p] = recordAll(@, SavedCalls(p, data))]
                 /\ life' = [life EXCEPT ![msg.req] = "Persisted"]
                 /\ loops' = [loops EXCEPT ![p][s].inflight = NoMsg]
            ELSE /\ colCalls' = [colCalls EXCEPT ![msg.req] = @ \o SaveFailedCalls(p, data, error)]
                 /\ counters' = [counters EXCEPT ![p] =
                                   recordAll(@, SaveFailedCalls(p, data, error))]
                 /\ life' = [life EXCEPT ![msg.req] = "Failed"]
                 /\ loops' = [loops EXCEPT ![p][s] =
                      [@ EXCEPT !.inflight = NoMsg,
                                !.pending = PendingAfterFailure(@, msg),
                                !.state = IF EscapesLoop(error) = NoError THEN @ ELSE "dead"]]
                 /\ UNCHANGED events
  /\ UNCHANGED <<probe, gatewayVars, invocations, conn, outbound, phase, collectorType,
                 subscriptions, routed, streams, envEvents>>

(***************************************************************************)
(* Specification                                                           *)
(***************************************************************************)
Next ==
  \/ \E r \in Req \cap (1..MaxColdCalls), body \in Bodies, header \in Headers :
       ReceiveWebhook(r, body, header)
  \/ \E r \in Req : ValidateStep(r)
  \/ \E r \in Req : PublishStep(r)
  \/ \E r \in Req : RespondStep(r)
  \/ \E p \in Procs : NatsConnect(p)
  \/ \E p \in Procs : ConnectionLost(p)
  \/ \E p \in Procs : Reconnected(p)
  \/ \E p \in Procs : ReconnectGaveUp(p)
  \/ \E p \in Procs : DisconnectBegin(p)
  \/ \E p \in Procs : DisconnectEnd(p)
  \/ \E p \in Procs : GracefulExit(p)
  \/ \E p \in Replicas : InitializeStreams(p)
  \/ \E p \in Replicas : SubscribeNext(p)
  \/ \E p \in Replicas : UnknownCollectorType(p)
  \/ \E p \in Procs : Route(p)
  \/ \E p \in Replicas, s \in Subjects : HandleMessage(p, s)
  \/ \E p \in Replicas, s \in Subjects : SaveEventResult(p, s)

Spec == Init /\ [][Next]_vars


(***************************************************************************)
(* The running system: gateway and both collectors have completed a        *)
(* fault-free start-up (a state Spec reaches), and webhook calls arrive    *)
(* while nothing fails but the persistence sink.                           *)
(***************************************************************************)
SteadyLoops(types) ==
  [p \in Replicas |-> [s \in Subjects |->
     LET own == OwnSubjects(types[p])
         idx == {i \in 1..Len(own) : own[i] = s}
     IN IF idx # {}
          THEN [state |-> "active",
                queue |-> SubscribeOptions(OwnQueues(types[p])[CHOOSE i \in idx : TRUE]),
                pending |-> <<>>, inflight |-> NoMsg]
          ELSE NoLoop]]

SteadyInit ==
  /\ req = [r \in Req |-> [pc |-> "idle", body |-> NoBody, header |-> U,
                           event |-> NoBody, error |-> NoError, response |-> NoResponse]]
  /\ calls = [r \in Req |-> <<>>]
  /\ counters = [p \in Procs |-> NoCounters]
  /\ natsLog = <<>>
  /\ conn = [p \in Procs |-> "open"]
  /\ outbound = [p \in Procs |-> <<>>]
  /\ phase = [p \in Procs |-> "running"]
  /\ collectorType \in Deployments
  /\ subscriptions = [p \in Procs |->
                        IF p \in Replicas THEN OwnSubjects(collectorType[p]) ELSE <<>>]
  /\ loops = SteadyLoops(collectorType)
  /\ life = [r \in Req |-> "None"]
  /\ invocations = [r \in Req |-> <<>>]
  /\ colCalls = [r \in Req |-> <<>>]
  /\ events = {}
  /\ routed = [r \in Req |-> NoRoute]
  /\ streams = Subjects
  /\ envEvents = 0
  /\ probe = NoProbe

SteadyNext ==
  \/ \E r \in Req, body \in Bodies, header \in Headers : ReceiveWebhook(r, body, header)
  \/ \E r \in Req : ValidateStep(r)
  \/ \E r \in Req : PublishStep(r)
  \/ \E r \in Req : RespondStep(r)
  \/ \E p \in Procs : Route(p)
  \/ \E p \in Replicas, s \in Subjects : HandleMessage(p, s)
  \/ \E p \in Replicas, s \in Subjects : SaveEventResult(p, s)

SteadySpec == SteadyInit /\ [][SteadyNext]_vars


(***************************************************************************)
(* The running gateway under connection faults: webhook calls interleave   *)
(* while the gateway's connection may drop, come back or close for good.   *)
(***************************************************************************)
GatewayNext ==
  \/ \E r \in Req, body \in Bodies, header \in Headers : ReceiveWebhook(r, body, header)
  \/ \E r \in Req : ValidateStep(r)
  \/ \E r \in Req : PublishStep(r)
  \/ \E r \in Req : RespondStep(r)
  \/ Route(Gateway)
  \/ ConnectionLost(Gateway)
  \/ Reconnected(Gateway)
  \/ ReconnectGaveUp(Gateway)

GatewaySpec == SteadyInit /\ [][GatewayNext]_vars


(***************************************************************************)
(* The running gateway called with payloads that carry keys outside the    *)
(* event schema, the envelope's own field names among them.                *)
(***************************************************************************)
SpoofBodies ==
  {mockFacebookEvent, mockTiktokEvent,
   [mockFacebookEvent EXCEPT !.correlationId = S("spoofed")],
   [mockFacebookEvent EXCEPT !.receivedAt = S("1999-01-01T00:00:00.000Z")],
   [mockFacebookEvent EXCEPT !.extra = S("x")],
   [mockFacebookEvent EXCEPT !.data.user.followers = N("1500")],
   [mockTiktokEvent EXCEPT !.correlationId = S("spoofed"), !.extra = S("x")]}

SpoofNext ==
  \/ \E r \in Req, body \in SpoofBodies, header \in {U, S("corr-1")} :
       ReceiveWebhook(r, body, header)
  \/ \E r \in Req : ValidateStep(r)
  \/ \E r \in Req : PublishStep(r)
  \/ \E r \in Req : RespondStep(r)
  \/ Route(Gateway)

SpoofSpec == SteadyInit /\ [][SpoofNext]_vars


(***************************************************************************)
(* The running collectors fed by any publisher: whatever is put on a       *)
(* subject reaches the subscribed message loops, gateway envelope or not.  *)
(***************************************************************************)
\* JSON.parse('null')
nullBody == [NoBody EXCEPT !.t = "null"]

\* message bodies a publisher may put on a subject: a gateway envelope, an
\* event that was never given a correlation id, the
\* JSON texts {} and null, and bytes that are not JSON
WirePayloads ==
  { JSONStringify(PublishEnvelope(FacebookParsed(mockFacebookEvent), S("corr-1"), 1,
                                  "k3j9x0q2a")),
    JSONStringify(PublishEnvelope(TiktokParsed(mockTiktokEvent), U, 1, "k3j9x0q2a")),
    JSONStringify(FacebookParsed(mockFacebookEvent)),
    JSONStringify([NoBody EXCEPT !.t = "object"]),
    JSONStringify(nullBody),
    NotJSON }

\* connection.publish by some client other than the gateway; the broker
\* routes the message at once
InjectMessage(r, subject, payload) ==
  /\ req[r].pc = "idle"
  /\ life[r] = "None"
  /\ r > 1 => life[r - 1] # "None"
  /\ LET msg == [subject |-> subject, payload |-> payload, req |-> r] IN
       \E R \in Recipients(subject) :
         /\ loops' = [q \in Replicas |->
                        IF q \in R
                          THEN [loops[q] EXCEPT ![subject].pending = Append(@, msg)]
                          ELSE loops[q]]
         /\ routed' = [routed EXCEPT ![r] =
                         [done |-> TRUE, members |-> Members(subject), to |-> R]]
  /\ life' = [life EXCEPT ![r] = "Published"]
  /\ UNCHANGED <<probe, gatewayVars, handlerVars, counters, conn, outbound, phase,
                 collectorType, subscriptions, streams, envEvents>>

WireNext ==
  \/ \E r \in Req, subject \in Subjects, payload \in WirePayloads :
       InjectMessage(r, subject, payload)
  \/ \E p \in Replicas, s \in Subjects : HandleMessage(p, s)
  \/ \E p \in Replicas, s \in Subjects : SaveEventResult(p, s)

WireSpec == SteadyInit /\ [][WireNext]_vars

(***************************************************************************)
(* ValidationService called directly: validateEvent, validateFacebookEvent *)
(* and validateTiktokEvent are public methods taking `any`.                *)
(***************************************************************************)
\* values that are not plain objects: undefined, null, 'invalid-event', a
\* number, [mockFacebookEvent], a BigInt
NonObjects ==
  {[NoBody EXCEPT !.t = k] : k \in {"undefined", "null", "string", "number", "array", "bigint"}}

\* an event whose user carries the fields of both shapes
hybridFacebookEvent ==
  [mockFacebookEvent EXCEPT !.data.user.username = S("johndoe_ttk"),
                            !.data.user.followers = N("1500")]
hybridTiktokEvent == [hybridFacebookEvent EXCEPT !.source = S("tiktok")]

\* every way of replacing one property of b
Variants(b) ==
  {[b EXCEPT !.eventId = v] : v \in {U, N("1")}}
  \cup {[b EXCEPT !.timestamp = v] : v \in {U, N("1")}}
  \cup {[b EXCEPT !.eventType = v] : v \in {U, S(""), N("1")}}
  \cup {[b EXCEPT !.source = v] :
          v \in {U, Null, S("facebook"), S("tiktok"), S("twitter"), S("FACEBOOK")}}
  \cup {[b EXCEPT !.funnelStage = v] : v \in {U, S("top"), S("bottom"), S("middle")}}
  \cup {[b EXCEPT !.data = NoData], [b EXCEPT !.data.user = NoUser],
        [b EXCEPT !.data.user.location = NoLocation]}
  \cup {[b EXCEPT !.data.user.userId = v] : v \in {U, N("1")}}
  \cup {[b EXCEPT !.data.user.name = v] : v \in {U, S("Jane"), N("1")}}
  \cup {[b EXCEPT !.data.user.age = v] : v \in {U, N("28"), N("0"), S("28"), NaN}}
  \cup {[b EXCEPT !.data.user.gender = v] :
          v \in {U, S("male"), S("female"), S("non-binary"), S("other")}}
  \cup {[b EXCEPT !.data.user.location.country = v] : v \in {U, N("1")}}
  \cup {[b EXCEPT !.data.user.location.city = v] : v \in {U, N("1")}}
  \cup {[b EXCEPT !.data.user.username = v] : v \in {U, S("jane_ttk"), N("1")}}
  \cup {[b EXCEPT !.data.user.followers = v] : v \in {U, N("0"), N("1500"), S("1500"), NaN}}
  \cup {[b EXCEPT !.data.engagement = v] : v \in {U, N("1"), NaN}}
  \cup {[b EXCEPT !.extra = v] : v \in {S("x"), Circular}}

\* the values the methods are called with
ValidationInputs ==
  NonObjects
    \cup {mockFacebookEvent, mockTiktokEvent, emptyTypeEvent, invalidEvent,
          hybridFacebookEvent, hybridTiktokEvent}
    \cup Variants(mockFacebookEvent) \cup Variants(mockTiktokEvent)
    \cup Variants(hybridFacebookEvent) \cup Variants(hybridTiktokEvent)
    \cup Variants(invalidEvent)

systemVars == <<req, calls, counters, natsLog, conn, outbound, phase, collectorType,
                subscriptions, loops, life, invocations, colCalls, events, routed,
                streams, envEvents>>

CallValidateEvent(d) ==
  /\ probe' = [method |-> "validateEvent", input |-> d, result |-> validateEvent(d)]
  /\ UNCHANGED systemVars

CallValidateFacebookEvent(d) ==
  /\ probe' = [method |-> "validateFacebookEvent", input |-> d,
               result |-> validateFacebookEvent(d)]
  /\ UNCHANGED systemVars

CallValidateTiktokEvent(d) ==
  /\ probe' = [method |-> "validateTiktokEvent", input |-> d,
               result |-> validateTiktokEvent(d)]
  /\ UNCHANGED systemVars

ValidationNext ==
  \/ \E d \in ValidationInputs : CallValidateEvent(d)
  \/ \E d \in ValidationInputs : CallValidateFacebookEvent(d)
  \/ \E d \in ValidationInputs : CallValidateTiktokEvent(d)

\* the service has no state of its own; the processes around it stay as built
ValidationInit == Init /\ collectorType = [p \in Replicas |-> "facebook"]

ValidationSpec == ValidationInit /\ [][ValidationNext]_vars


(***************************************************************************)
(* WebhookService.processEvent called with any value: the gateway of the   *)
(* running system handles one call at a time, whatever the payload is.     *)
(***************************************************************************)
IngestNext ==
  \/ \E body \in ValidationInputs, header \in {U, S("corr-1")} :
       ReceiveWebhook(1, body, header)
  \/ ValidateStep(1)
  \/ PublishStep(1)
  \/ RespondStep(1)
  \/ Route(Gateway)
  \/ \E p \in Replicas, s \in Subjects : HandleMessage(p, s)
  \/ \E p \in Replicas, s \in Subjects : SaveEventResult(p, s)

IngestInit ==
  SteadyInit /\ collectorType = [p \in Replicas |-> IF p = "c1" THEN "tiktok" ELSE "facebook"]

IngestSpec == IngestInit /\ [][IngestNext]_vars


(***************************************************************************)
(* generateCorrelationId of the controller and of the repository, called   *)
(* at any time with any value of the random source.                        *)
(***************************************************************************)
CallGenerateCorrelationId(now, text) ==
  /\ probe' = [method |-> "generateCorrelationId", input |-> NoBody,
               result |-> [ok |-> TRUE,
                           event |-> [NoBody EXCEPT !.correlationId =
                                        generateCorrelationId(now, Substr(text, 2, 9))],
                           error |-> NoError]]
  /\ UNCHANGED systemVars

IdNext == \E now \in Times, text \in RandomTexts : CallGenerateCorrelationId(now, text)

IdSpec == ValidationInit /\ [][IdNext]_vars


(***************************************************************************)
(* The reconnect options of NatsService.connect.  The NATS client retries  *)
(* a lost connection up to maxReconnectAttempts times, waiting             *)
(* reconnectTimeWait before each attempt, and closes when they are used up.*)
(***************************************************************************)
\* the largest ceiling set explicitly in the environment
MaxAttempts == 2

Num(i) == N(ToString(i))
\* the integer a number value stands for
IntOf(x) == CHOOSE i \in 0..1000 : ToString(i) = x.v

\* NATS_MAX_RECONNECT_ATTEMPTS and NATS_RECONNECT_TIME_WAIT: unset, a
\* decimal text, or text that is not a number
EnvAttempts == {U, S("abc")} \cup {S(ToString(i)) : i \in 0..MaxAttempts}
EnvTimeWaits == {U, S("abc"), S("0"), S("500")}

\* parseInt of a decimal text, NaN for text without leading digits
ParseInt(s) ==
  IF \E i \in 0..1000 : ToString(i) = s.v THEN N(s.v) ELSE NaN

\* the AppModule factory: parseInt(process.env.X || default)
NatsConfig(envAttempts, envTimeWait) ==
  [maxReconnectAttempts |-> ParseInt(OrElse(envAttempts, S("10"))),
   reconnectTimeWait |-> ParseInt(OrElse(envTimeWait, S("1000")))]

\* the options connect() passes to the client: config.x || default
ConnectOptions(config) ==
  [maxReconnectAttempts |-> OrElse(config.maxReconnectAttempts, Num(10)),
   reconnectTimeWait |-> OrElse(config.reconnectTimeWait, Num(1000))]

\* the client's reconnect loop continues while attempts remain
AttemptsLeft(client) == client.attempts < IntOf(client.options.maxReconnectAttempts)

ClientConnect(envAttempts, envTimeWait) ==
  /\ probe.method = "none"
  /\ probe' = [method |-> "connect",
               env |-> [attempts |-> envAttempts, timeWait |-> envTimeWait],
               options |-> ConnectOptions(NatsConfig(envAttempts, envTimeWait)),
               state |-> "open", attempts |-> 0, waited |-> U]
  /\ UNCHANGED systemVars

ClientConnectionLost ==
  /\ probe.method = "connect" /\ probe.state = "open"
  /\ probe' = [probe EXCEPT !.state = "reconnecting", !.attempts = 0, !.waited = U]
  /\ UNCHANGED systemVars

\* one more attempt, after the wait, that fails or succeeds
ClientReconnectAttempt(ok) ==
  /\ probe.method = "connect" /\ probe.state = "reconnecting"
  /\ AttemptsLeft(probe)
  /\ probe' = [probe EXCEPT !.attempts = @ + 1, !.waited = probe.options.reconnectTimeWait,
                            !.state = IF ok THEN "open" ELSE "reconnecting"]
  /\ UNCHANGED systemVars

ClientGaveUp ==
  /\ probe.method = "connect" /\ probe.state = "reconnecting"
  /\ ~AttemptsLeft(probe)
  /\ probe' = [probe EXCEPT !.state = "closed"]
  /\ UNCHANGED systemVars

ReconnectNext ==
  \/ \E a \in EnvAttempts, w \in EnvTimeWaits : ClientConnect(a, w)
  \/ ClientConnectionLost
  \/ \E ok \in BOOLEAN : ClientReconnectAttempt(ok)
  \/ ClientGaveUp

ReconnectSpec == ValidationInit /\ [][ReconnectNext]_vars


(***************************************************************************)
(* Reporter: ReportsController and its MetricsService.  The three report   *)
(* handlers parse the query, record the start, validate the filters, run   *)
(* the report and record success, or record the failure in their catch.    *)
(***************************************************************************)
\* report requests served in one run
MaxReports == 2

ReportTypes == {"events", "revenue", "demographics"}

\* query strings: ?from=..&to=..&source=..&funnelStage=..; a parameter given
\* twice arrives as an array
Repeated == [t |-> "array", v |-> ""]
Queries ==
  [from : {U, S("2024-01-01"), S("2024-02-01"), S("invalid-date")},
   to : {U, S("2024-01-15"), Repeated},
   source : {U, S("facebook"), S("invalid-source")},
   funnelStage : {U, S("top"), S("invalid-stage")},
   eventType : {U},
   campaignId : {U}]

ZodOptional(x, ok) == x.t = "undefined" \/ ok
\* ReportFiltersSchema.parse(query) succeeds
ReportFiltersSchema(q) ==
  /\ ZodOptional(q.from, ZodString(q.from))
  /\ ZodOptional(q.to, ZodString(q.to))
  /\ ZodOptional(q.source, ZodEnum(q.source, {"facebook", "tiktok"}))
  /\ ZodOptional(q.funnelStage, ZodEnum(q.funnelStage, {"top", "bottom"}))
  /\ ZodOptional(q.eventType, ZodString(q.eventType))
  /\ ZodOptional(q.campaignId, ZodString(q.campaignId))

\* new Date(text): the day number of a date text, 0 for an Invalid Date
DateOf(x) ==
  CASE x.v \in {"2024-01-01", "2024-01-01T00:00:00.000Z"} -> 1
    [] x.v \in {"2024-01-15", "2024-01-15T00:00:00.000Z"} -> 15
    [] x.v \in {"2024-02-01", "2024-02-01T00:00:00.000Z"} -> 32
    [] OTHER -> 0

\* Date.prototype.toISOString of the date with this day number
toISOString(day) ==
  CASE day = 1 -> S("2024-01-01T00:00:00.000Z")
    [] day = 15 -> S("2024-01-15T00:00:00.000Z")
    [] day = 32 -> S("2024-02-01T00:00:00.000Z")

NoFilters ==
  [from |-> U, to |-> U, source |-> U, funnelStage |-> U, eventType |-> U,
   campaignId |-> U]

\* the validatedFilters object validateFilters builds
validatedFilters(filters) ==
  [from |-> IF Truthy(filters.from) THEN toISOString(DateOf(filters.from)) ELSE U,
   to |-> IF Truthy(filters.to) THEN toISOString(DateOf(filters.to)) ELSE U,
   source |-> filters.source,
   funnelStage |-> filters.funnelStage,
   eventType |-> filters.eventType,
   campaignId |-> filters.campaignId]

\* AnalyticsService.validateFilters: toISOString throws a RangeError on an
\* Invalid Date; a from date later than the to date is an Error; otherwise
\* the validated filters are returned
validateFilters(filters) ==
  IF (Truthy(filters.from) /\ DateOf(filters.from) = 0)
       \/ (Truthy(filters.to) /\ DateOf(filters.to) = 0)
    THEN [error |-> [type |-> "RangeError", message |-> "Invalid time value"],
          filters |-> NoFilters]
  ELSE LET v == validatedFilters(filters) IN
    IF Truthy(v.from) /\ Truthy(v.to) /\ DateOf(v.from) > DateOf(v.to)
      THEN [error |-> Error("From date cannot be later than to date"),
            filters |-> NoFilters]
      ELSE [error |-> NoError, filters |-> v]

\* the error a report request ends with, NoError when it succeeds
ReportError(query, repositoryOk) ==
  IF ~ReportFiltersSchema(query) THEN [type |-> "ZodError", message |-> "invalid query"]
  ELSE IF validateFilters(query).error # NoError THEN validateFilters(query).error
  ELSE IF ~repositoryOk THEN Error("Database error")
  ELSE NoError

\* the MetricsService calls of one handler run, in order
ReportCalls(query, repositoryOk) ==
  (IF ReportFiltersSchema(query) THEN <<"recordRequestStart">> ELSE <<>>)
    \o (IF ReportError(query, repositoryOk) = NoError
          THEN <<"recordRequestSuccess">> ELSE <<"recordRequestFailure">>)

CountOf(seq, x) == Cardinality({i \in 1..Len(seq) : seq[i] = x})

NoReports ==
  [method |-> "reports", served |-> 0,
   requestsTotal |-> [t \in ReportTypes |-> 0],
   requestsFailed |-> [t \in ReportTypes |-> 0],
   succeeded |-> [t \in ReportTypes |-> 0],
   last |-> [reportType |-> "", query |-> NoFilters, calls |-> <<>>,
             error |-> NoError]]

\* the reporter's counters: at zero once MetricsService is constructed
Reporter == IF probe.method = "reports" THEN probe ELSE NoReports

\* one request to a report endpoint, from its arrival to its response
GetReport(reportType, query, repositoryOk) ==
  /\ probe.method \in {"none", "reports"}
  /\ Reporter.served < MaxReports
  /\ LET cl == ReportCalls(query, repositoryOk) IN
       probe' = [Reporter EXCEPT
         !.served = @ + 1,
         !.requestsTotal[reportType] = @ + CountOf(cl, "recordRequestStart"),
         !.requestsFailed[reportType] = @ + CountOf(cl, "recordRequestFailure"),
         !.succeeded[reportType] = @ + CountOf(cl, "recordRequestSuccess"),
         !.last = [reportType |-> reportType, query |-> query, calls |-> cl,
                   error |-> ReportError(query, repositoryOk)]]
  /\ UNCHANGED systemVars

getEventStatistics(query, repositoryOk) == GetReport("events", query, repositoryOk)
getRevenueData(query, repositoryOk) == GetReport("revenue", query, repositoryOk)
getDemographicsData(query, repositoryOk) == GetReport("demographics", query, repositoryOk)

ReportNext ==
  \/ \E query \in Queries, ok \in BOOLEAN : getEventStatistics(query, ok)
  \/ \E query \in Queries, ok \in BOOLEAN : getRevenueData(query, ok)
  \/ \E query \in Queries, ok \in BOOLEAN : getDemographicsData(query, ok)

ReportSpec == ValidationInit /\ [][ReportNext]_vars


(***************************************************************************)
(* AnalyticsService.validateFilters called with any filters a parsed query *)
(* can hold: an empty parameter (?from=) arrives as the empty string.      *)
(***************************************************************************)
Filters ==
  [from : {U, S(""), S("2024-01-01"), S("2024-01-15"), S("2024-02-01"),
           S("invalid-date")},
   to : {U, S(""), S("2024-01-15"), S("not-a-date")},
   source : {U, S("facebook"), S("tiktok")},
   funnelStage : {U, S("top"), S("bottom")},
   eventType : {U, S("ad.view")},
   campaignId : {U, S("campaign-123")}]

CallValidateFilters(filters) ==
  /\ probe' = [method |-> "validateFilters", input |-> filters,
               result |-> validateFilters(filters)]
  /\ UNCHANGED systemVars

FilterNext == \E filters \in Filters : CallValidateFilters(filters)

FilterSpec == ValidationInit /\ [][FilterNext]_vars

(***************************************************************************)
(* MetricsService of the gateway and of the collectors over a prom-client  *)
(* registry whose instruments may throw: on a label outside labelNames, on *)
(* a value that is not a finite number, on a negative counter increment,   *)
(* or because the instrument itself is broken.                             *)
(***************************************************************************)
MetricServices == {"gateway", "collector"}

\* labelNames of the instruments built in the constructors
labelNames(service, type) ==
  (IF service = "collector" THEN {"collector_type"} ELSE {})
    \cup (CASE type \in {"accepted", "processed"} -> {"source", "event_type", "funnel_stage"}
            [] type = "failed" -> {"source", "event_type", "error"}
            [] type = "duration" -> {"source", "event_type"}
            [] OTHER -> {})

\* Counter.inc(labels, value) / Histogram.observe(labels, value) throws; a
\* type outside the switch touches no instrument
IncThrows(service, type, value, names, broken) ==
  /\ type \in MetricTypes
  /\ \/ type \in broken
     \/ ~(names \subseteq labelNames(service, type))
     \/ value = NaN
     \/ type # "duration" /\ value = N("-1")

\* Variant without the try/catch around the instrument.
recordMetricUncaught(service, type, value, names, broken) ==
  [threw |-> IncThrows(service, type, value, names, broken),
   recorded |-> type \in MetricTypes /\ ~IncThrows(service, type, value, names, broken),
   logged |-> FALSE]

\* recordMetric / recordProcessingDuration: try { instrument } catch (error)
\* { this.logger.error(..., error.stack) }
recordMetricOutcome(service, type, value, names, broken) ==
  [threw |-> FALSE,
   recorded |-> type \in MetricTypes /\ ~IncThrows(service, type, value, names, broken),
   logged |-> IncThrows(service, type, value, names, broken)]

\* processEvent of the gateway (sink: publishEvent) and of the collector
\* (sink: saveEvent) for a valid event and a working sink: a throw of the
\* accepted metric would skip the sink, a later throw would reject the call
processEventOutcome(service, broken) ==
  LET accepted == recordMetricOutcome(service, "accepted", N("1"),
                                      labelNames(service, "accepted"), broken)
      processed == recordMetricOutcome(service, "processed", N("1"),
                                       labelNames(service, "processed"), broken)
      duration == recordMetricOutcome(service, "duration", N("1"),
                                      labelNames(service, "duration"), broken)
  IN IF accepted.threw THEN [sunk |-> FALSE, success |-> FALSE]
     ELSE IF processed.threw \/ duration.threw THEN [sunk |-> TRUE, success |-> FALSE]
     ELSE [sunk |-> TRUE, success |-> TRUE]

CallRecordMetric(service, type, value, names, broken) ==
  /\ probe' = [method |-> "recordMetric",
               input |-> [service |-> service, type |-> type, value |-> value,
                          names |-> names, broken |-> broken],
               result |-> recordMetricOutcome(service, type, value, names, broken)]
  /\ UNCHANGED systemVars

CallProcessEvent(service, broken) ==
  /\ probe' = [method |-> "processEvent",
               input |-> [service |-> service, broken |-> broken],
               result |-> processEventOutcome(service, broken)]
  /\ UNCHANGED systemVars

MetricsNext ==
  \/ \E service \in MetricServices, type \in MetricTypes \cup {"other"},
        value \in {N("1"), N("0"), N("-1"), NaN} :
       \E names \in {{}, labelNames(service, type), {"source", "unexpected"}},
          broken \in {{}, {type}} :
            CallRecordMetric(service, type, value, names, broken)
  \/ \E service \in MetricServices, broken \in SUBSET MetricTypes :
          CallProcessEvent(service, broken)

MetricsSpec == ValidationInit /\ [][MetricsNext]_vars


(***************************************************************************)
(* One NatsService through its life: connected once by onModuleInit, then  *)
(* called to subscribe, publish and report its state in any order while    *)
(* the connection may close, and disconnected by onModuleDestroy.          *)
(***************************************************************************)
\* calls made to one NatsService
MaxCalls == 4

NoService ==
  [method |-> "NatsService", connection |-> "null", subscriptions |-> <<>>,
   initialized |-> FALSE, destroyed |-> FALSE, calls |-> 0,
   last |-> [call |-> "", error |-> NoError, value |-> U]]

\* the fields of the service: connection = null, subscriptions = [] when it
\* is constructed
Service == IF probe.method = "NatsService" THEN probe ELSE NoService

ServiceCall(call, error, value, connection, registry) ==
  /\ probe.method \in {"none", "NatsService"}
  /\ Service.calls < MaxCalls
  /\ probe' = [Service EXCEPT !.calls = @ + 1,
                              !.last = [call |-> call, error |-> error, value |-> value],
                              !.connection = connection,
                              !.subscriptions = registry,
                              !.initialized = @ \/ call = "onModuleInit",
                              !.destroyed = @ \/ call = "onModuleDestroy"]
  /\ UNCHANGED systemVars

\* what a call on the connection object throws, by the state of the socket
ConnectionThrows(connection) ==
  IF connection = "closed" THEN Error("CONNECTION_CLOSED") ELSE NoError

\* getConnection()
GetConnectionThrows(connection) ==
  IF connection = "null" THEN Error("NATS connection not established") ELSE NoError

\* onModuleInit -> connect(), run once by the framework
ServiceOnModuleInit ==
  /\ ~Service.initialized
  /\ ServiceCall("onModuleInit", NoError, U, "open", Service.subscriptions)

\* the server goes away and the reconnect attempts are used up
ServiceConnectionCloses ==
  /\ probe.method = "NatsService"
  /\ probe.connection = "open"
  /\ probe' = [probe EXCEPT !.connection = "closed"]
  /\ UNCHANGED systemVars

\* subscribe / subscribeToStream: getConnection(), connection.subscribe,
\* subscriptions.push
ServiceSubscribe(call, subject) ==
  LET sv == Service IN
  IF GetConnectionThrows(sv.connection) # NoError
    THEN ServiceCall(call, GetConnectionThrows(sv.connection), U, sv.connection,
                     sv.subscriptions)
  ELSE IF ConnectionThrows(sv.connection) # NoError
    THEN ServiceCall(call, ConnectionThrows(sv.connection), U, sv.connection,
                     sv.subscriptions)
  ELSE ServiceCall(call, NoError, U, sv.connection, Append(sv.subscriptions, subject))

\* publish / publishToStream: getConnection(), connection.publish
ServicePublish(call) ==
  LET sv == Service IN
  ServiceCall(call,
              IF GetConnectionThrows(sv.connection) # NoError
                THEN GetConnectionThrows(sv.connection)
                ELSE ConnectionThrows(sv.connection),
              U, sv.connection, sv.subscriptions)

\* isConnected(): connection.closed() is a promise, and a promise is truthy
ServiceIsConnected ==
  LET sv == Service IN
  ServiceCall("isConnected", NoError,
              IF sv.connection # "null" /\ ~Truthy([t |-> "object", v |-> "pending"])
                THEN S("true") ELSE S("false"),
              sv.connection, sv.subscriptions)

\* onModuleDestroy -> disconnect(): nothing without a connection; otherwise
\* the subscriptions are drained and the registry emptied, then
\* `await this.connection.drain()`, close() and connection = null
ServiceOnModuleDestroy ==
  LET sv == Service IN
  /\ sv.initialized
  /\ IF sv.connection = "null"
       THEN ServiceCall("onModuleDestroy", NoError, U, sv.connection, sv.subscriptions)
     ELSE IF DrainRejects(sv.connection)
       THEN ServiceCall("onModuleDestroy", Error("CONNECTION_CLOSED"), U, sv.connection, <<>>)
     ELSE ServiceCall("onModuleDestroy", NoError, U, "null", <<>>)

RegistryNext ==
  \/ ServiceOnModuleInit
  \/ ServiceConnectionCloses
  \/ \E subject \in Subjects : ServiceSubscribe("subscribe", subject)
  \/ \E subject \in Subjects : ServiceSubscribe("subscribeToStream", subject)
  \/ ServicePublish("publish")
  \/ ServicePublish("publishToStream")
  \/ ServiceIsConnected
  \/ ServiceOnModuleDestroy

RegistrySpec == ValidationInit /\ [][RegistryNext]_vars


(***************************************************************************)
(* Properties                                                              *)
(***************************************************************************)
\* positions of the envelopes of call r on the log
PublishedBy(r) == {i \in 1..Len(natsLog) : natsLog[i].req = r}

\* the envelopes of call r a collector's subscription callback holds
HandlerEnvelopes(r) ==
  {JSONParse(loops[p][s].inflight.payload) :
     <<p, s>> \in {x \in Replicas \X Subjects : loops[x[1]][x[2]].inflight.req = r}}

\* the metric types of a sequence of metric calls
Types(cl) == [i \in 1..Len(cl) |-> cl[i].type]

Terminal(r) == req[r].pc \in {"responded", "rejected", "publishFailed"}

\* C1: when the caller supplied no correlation id, the correlationId of the
\* HTTP response is the correlationId of the envelope published for that call
\* and handed to the collector's handler.
C1_ResponseIdIsEnvelopeId ==
  \A r \in Req :
    (req[r].pc = "responded" /\ req[r].header = U) =>
      /\ \A i \in PublishedBy(r) :
           JSONParse(natsLog[i].payload).correlationId = req[r].response.correlationId
      /\ \A data \in HandlerEnvelopes(r) :
           data.correlationId = req[r].response.correlationId

\* C2: isConnected() is true exactly when a connection has been established
\* and is not closed, and readiness reports nats 'up' exactly when
\* isConnected() is true.
C2_IsConnectedReflectsConnection ==
  \A p \in Procs :
    /\ isConnected(p) <=> conn[p] \in {"open", "reconnecting"}
    /\ (readinessNats(p) = "up") <=> isConnected(p)

\* the subject call r publishes on
SubjectOf(r) == buildSubject(req[r].event)

\* the calls whose handler failed on subscription s of replica p
FailedOn(p, s) ==
  {a \in Req : life[a] = "Failed" /\ invocations[a] = <<p>> /\ SubjectOf(a) = s}

\* C3: after the handler failed for a message A, the subscription's loop is
\* still alive: a message B waiting on the same subscription can be handed to
\* the handler, and a B that was persisted has its accepted, processed and
\* duration metrics whatever happened to A.
C3_LoopSurvivesHandlerFailure ==
  \A p \in Replicas, s \in Subjects :
    FailedOn(p, s) # {} =>
      /\ loops[p][s].state = "active"
      /\ (loops[p][s].pending # <<>> /\ loops[p][s].inflight = NoMsg)
           => ENABLED HandleMessage(p, s)
      /\ \A b \in Req :
           (life[b] = "Persisted" /\ invocations[b] = <<p>> /\ SubjectOf(b) = s)
             => Types(colCalls[b]) = <<"accepted", "processed", "duration">>

\* a message B is in the handler of the subscription on which A failed
C3_Witness ==
  \E p \in Replicas, s \in Subjects, a \in Req, b \in Req :
    /\ a \in FailedOn(p, s)
    /\ b # a
    /\ loops[p][s].inflight.req = b
    /\ Types(colCalls[b]) = <<"accepted">>

\* C4: a payload that fails validation publishes no envelope and the call
\* fails with the validation error itself; every envelope on the log comes
\* from a payload that passed validateEvent.
C4_InvalidNeverPublished ==
  /\ \A r \in Req :
       (req[r].pc \notin {"idle", "received"} /\ ~validateEvent(req[r].body).ok) =>
         /\ req[r].pc = "rejected"
         /\ PublishedBy(r) = {}
         /\ req[r].response.kind = "error"
         /\ req[r].response.error = validateEvent(req[r].body).error
  /\ \A i \in 1..Len(natsLog) :
       /\ validateEvent(req[natsLog[i].req].body).ok
       /\ validateEvent(JSONParse(natsLog[i].payload)).ok

C4_Witness ==
  \E r \in Req :
    /\ req[r].pc = "rejected"
    /\ req[r].body = invalidEvent
    /\ req[r].response.error = BadRequestException("Invalid event format: invalid_union")

\* C5: every finished processEvent call either succeeded, with success true,
\* the event's id, the accepted and processed metrics and exactly one
\* envelope handed over, or failed with an error and no envelope.
C5_SuccessOrNothing ==
  \A r \in Req :
    /\ Cardinality(PublishedBy(r)) <= 1
    /\ Terminal(r) =>
         \/ /\ req[r].pc = "responded"
            /\ req[r].response.kind = "ok"
            /\ req[r].response.success
            /\ req[r].response.eventId = req[r].event.eventId
            /\ Types(calls[r]) = <<"accepted", "processed", "duration">>
            /\ Cardinality(PublishedBy(r)) = 1
         \/ /\ req[r].pc # "responded"
            /\ req[r].response.kind = "error"
            /\ ~req[r].response.success
            /\ req[r].response.error # NoError
            /\ \A i \in 1..Len(calls[r]) : calls[r][i].type # "processed"
            /\ PublishedBy(r) = {}

C5_Witness ==
  \E r \in Req :
    /\ req[r].pc = "responded"
    /\ Cardinality(PublishedBy(r)) = 1
    /\ counters[Gateway] # NoCounters

\* C6: when the publish fails for an event that passed validation, the
\* accepted metric and then a failed metric carrying the validated event's
\* own source and eventType and the error's message are recorded, neither
\* processed nor duration is, and the error reaches the caller.
C6_FailedMetricHasRealLabels ==
  \A r \in Req :
    req[r].pc = "publishFailed" =>
      /\ Types(calls[r]) = <<"accepted", "failed">>
      /\ calls[r][2].labels =
           Labels(Absent, LabelText(req[r].event.source), LabelText(req[r].event.eventType),
                  Absent, req[r].error.message)
      /\ req[r].response.kind = "error"
      /\ req[r].response.error = req[r].error

\* the replicas that hold or have handled the message of call r
Holders(r) ==
  {p \in Replicas :
     \/ \E i \in 1..Len(invocations[r]) : invocations[r][i] = p
     \/ \E s \in Subjects :
          \/ loops[p][s].inflight.req = r
          \/ \E i \in 1..Len(loops[p][s].pending) : loops[p][s].pending[i].req = r}

\* C7: a message routed while replicas are subscribed to its subject in one
\* queue group goes to exactly one of them, and only that replica's handler
\* is invoked for it.
C7_QueueGroupDeliversOnce ==
  \A r \in Req :
    (routed[r].done /\ routed[r].members # {}) =>
      /\ Cardinality(routed[r].to) = 1
      /\ routed[r].to \subseteq routed[r].members
      /\ Holders(r) \subseteq routed[r].to
      /\ Len(invocations[r]) <= 1

C7_Witness ==
  \E r \in Req :
    /\ routed[r].done
    /\ Cardinality(routed[r].members) = 2
    /\ Len(invocations[r]) = 1

\* C8: while the connection is lost, every publish and every subscribe fails
\* at once: a publish succeeds, an envelope is taken, a subscription is
\* registered only on an open connection.
C8_FailFastWhileDisconnected ==
  [][ /\ \A r \in Req :
           (req[r].pc = "validated" /\ req'[r].pc = "published") => conn[Gateway] = "open"
      /\ natsLog' # natsLog => conn[Gateway] = "open"
      /\ \A p \in Replicas :
           Len(subscriptions'[p]) > Len(subscriptions[p]) => conn[p] = "open" ]_vars

\* C9: an envelope whose processEvent call returned success is delivered and
\* persisted: once nothing holds it any more, its row is in the store.
C9_AtLeastOnce ==
  \A r \in Req :
    (req[r].pc = "responded" /\ ~Buffered(r)) =>
      /\ life[r] = "Persisted"
      /\ \E e \in events : e.req = r

LifeSteps ==
  { <<"None", "Received">>, <<"Received", "Validated">>, <<"Received", "Failed">>,
    <<"Validated", "Published">>, <<"Validated", "Failed">>,
    <<"Published", "Delivered">>, <<"Delivered", "Persisted">>,
    <<"Delivered", "Failed">> }

\* C10: an event moves Received -> Validated -> Published -> Delivered ->
\* Persisted, enters Failed only from Received, Validated or Delivered, and
\* once Persisted or Failed it stays there: it is not published again, not
\* delivered again, and its handler is not invoked again.
C10_Lifecycle ==
  [][ \A r \in Req :
        /\ life'[r] # life[r] => <<life[r], life'[r]>> \in LifeSteps
        /\ life[r] \in {"Persisted", "Failed"} =>
             /\ life'[r] = life[r]
             /\ invocations'[r] = invocations[r]
             /\ ~Buffered(r)'
             /\ {i \in 1..Len(natsLog') : natsLog'[i].req = r} = PublishedBy(r)
        /\ Len(invocations'[r]) <= 1 ]_vars

\* a handler failure: Failed entered from Delivered
C10_Witness ==
  \E r \in Req :
    /\ life[r] = "Failed"
    /\ Len(invocations[r]) = 1
    /\ req[r].pc = "responded"

\* the metric calls of a given type made while handling message r
CollectorCalls(r, type) == {i \in 1..Len(colCalls[r]) : colCalls[r][i].type = type}

\* C11: for every message delivered to a collector whose handling failed at
\* any step, exactly one failed metric carrying an error message was recorded
\* and no processed metric.
C11_FailureRecordsOneFailedMetric ==
  \A r \in Req :
    (life[r] = "Failed" /\ routed[r].done /\ routed[r].to # {}) =>
      /\ Cardinality(CollectorCalls(r, "failed")) = 1
      /\ \A i \in CollectorCalls(r, "failed") : colCalls[r][i].labels.error # Absent
      /\ CollectorCalls(r, "processed") = {}

\* the subjects a collector of the given type is to subscribe to
ExpectedSubjects(type) ==
  IF type \in {"facebook", "tiktok"}
    THEN <<"events." \o type \o ".top", "events." \o type \o ".bottom">>
    ELSE <<>>

\* C12: a collector that has finished onModuleInit is subscribed to exactly
\* events.<type>.top and events.<type>.bottom when COLLECTOR_TYPE is
\* 'facebook' or 'tiktok' and to nothing for any other value, and for such a
\* value onModuleInit does not fail.
C12_SubscribesByCollectorType ==
  /\ [](\A p \in Replicas :
          phase[p] = "running" =>
            /\ subscriptions[p] = ExpectedSubjects(collectorType[p])
            /\ {s \in Subjects : loops[p][s].state # "none"}
                 = {ExpectedSubjects(collectorType[p])[i] :
                      i \in 1..Len(ExpectedSubjects(collectorType[p]))})
  /\ [][\A p \in Replicas :
          (phase[p] = "streams" /\ collectorType[p] \notin {"facebook", "tiktok"})
            => phase'[p] \in {"streams", "running"}]_vars

\* a replica started with FACEBOOK runs without subscription next to a
\* facebook replica with its two
C12_Witness ==
  /\ phase["c1"] = "running" /\ collectorType["c1"] = "FACEBOOK"
  /\ subscriptions["c1"] = <<>>
  /\ phase["c2"] = "running" /\ collectorType["c2"] = "facebook"
  /\ subscriptions["c2"] = <<"events.facebook.top", "events.facebook.bottom">>

\* C13: ensureStream on a stream that is already declared completes without
\* an error reaching its caller, and a declared stream is never changed by
\* further calls.
C13_EnsureStreamIdempotent ==
  [][ /\ \A p \in Replicas :
           (streams # {} /\ phase[p] = "connected" /\ phase'[p] # "connected")
             => phase'[p] = "streams"
      /\ streams # {} => streams' = streams ]_vars

\* both replicas have declared the stream, the second on the existing one
C13_Witness ==
  /\ phase["c1"] = "streams"
  /\ phase["c2"] = "streams"
  /\ streams = Subjects

\* the messages replica p holds on its subscription to subject s
HeldOn(p, s) ==
  {loops[p][s].pending[i] : i \in 1..Len(loops[p][s].pending)}
    \cup (IF loops[p][s].inflight = NoMsg THEN {} ELSE {loops[p][s].inflight})

\* C14: every envelope is published on events.<source>.<funnelStage> of its
\* own source and funnelStage, one of the four declared subjects; so a
\* collector of type T holds only events of source T, and its top (bottom)
\* subscription only events of that funnel stage.
C14_SubjectRoutesBySourceAndStage ==
  /\ \A i \in 1..Len(natsLog) :
       LET data == JSONParse(natsLog[i].payload) IN
         /\ natsLog[i].subject = "events." \o data.source.v \o "." \o data.funnelStage.v
         /\ data.source = req[natsLog[i].req].event.source
         /\ data.funnelStage = req[natsLog[i].req].event.funnelStage
         /\ natsLog[i].subject \in Subjects
  /\ \A p \in Replicas, s \in Subjects : \A msg \in HeldOn(p, s) :
       LET data == JSONParse(msg.payload) IN
         /\ data.source.v = collectorType[p]
         /\ s = "events." \o collectorType[p] \o "." \o data.funnelStage.v
  /\ \A e \in events : \A p \in Replicas :
       invocations[e.req] = <<p>> => e.source.v = collectorType[p]

\* a tiktok collector's bottom subscription holds a tiktok bottom event
C14_Witness ==
  /\ collectorType["c1"] = "tiktok"
  /\ loops["c1"]["events.tiktok.bottom"].inflight # NoMsg
  /\ JSONParse(loops["c1"]["events.tiktok.bottom"].inflight.payload).source = S("tiktok")

\* C15: a non-empty supplied correlation id is used unchanged: it is the
\* correlationId of the HTTP response, of the published envelope, of the
\* envelope the collector's handler holds, and of the row handed to the
\* persistence sink.
C15_SuppliedIdUnchanged ==
  \A r \in Req :
    (req[r].header.t = "string" /\ req[r].header.v # "") =>
      /\ req[r].pc = "responded" => req[r].response.correlationId = req[r].header
      /\ \A i \in PublishedBy(r) :
           JSONParse(natsLog[i].payload).correlationId = req[r].header
      /\ \A data \in HandlerEnvelopes(r) : data.correlationId = req[r].header
      /\ \A e \in events : e.req = r => e.correlationId = req[r].header

\* the 1000-character id has reached the response and the stored row
C15_Witness ==
  \E r \in Req :
    /\ req[r].header = S(LongId)
    /\ req[r].pc = "responded"
    /\ \E e \in events : e.req = r /\ e.correlationId = S(LongId)

\* C16: for every input at most one of validateFacebookEvent and
\* validateTiktokEvent succeeds; validateEvent succeeds exactly when one of
\* them does and then returns that validator's event; an input matching
\* neither shape is rejected.
C16_UnionOfDisjointValidators ==
  probe.method # "none" =>
    LET d == probe.input
        f == validateFacebookEvent(d)
        t == validateTiktokEvent(d)
    IN /\ ~(f.ok /\ t.ok)
       /\ probe.method = "validateFacebookEvent" => probe.result = f
       /\ probe.method = "validateTiktokEvent" => probe.result = t
       /\ probe.method = "validateEvent" =>
            /\ probe.result.ok <=> (f.ok \/ t.ok)
            /\ f.ok => probe.result.event = f.event
            /\ t.ok => probe.result.event = t.event
            /\ (~f.ok /\ ~t.ok) => probe.result.error # NoError

\* validateEvent accepted a TikTok event, which validateFacebookEvent rejects
C16_Witness ==
  /\ probe.method = "validateEvent"
  /\ probe.input = mockTiktokEvent
  /\ probe.result.ok
  /\ ~validateFacebookEvent(probe.input).ok
  /\ probe.result.event = validateTiktokEvent(probe.input).event

\* the method probe names, applied to a value
Validate(method, d) ==
  CASE method = "validateFacebookEvent" -> validateFacebookEvent(d)
    [] method = "validateTiktokEvent" -> validateTiktokEvent(d)
    [] OTHER -> validateEvent(d)

\* C17: a successful validation returns an event equal to its input, field
\* for field, and validating the result again returns the same value.
C17_ValidEventReturnedUnchanged ==
  (probe.method # "none" /\ probe.result.ok) =>
    /\ probe.result.event = probe.input
    /\ Validate(probe.method, probe.result.event) = probe.result

\* the source property of an input is 'facebook' or 'tiktok'
KnownSource(d) == d.t = "object" /\ d.source \in {S("facebook"), S("tiktok")}

\* C18: validateEvent fails with a BadRequestException, and with nothing
\* else, for every input whose source is neither 'facebook' nor 'tiktok' or
\* is absent.
C18_UnknownSourceIsBadRequest ==
  (probe.method = "validateEvent" /\ ~KnownSource(probe.input)) =>
    /\ ~probe.result.ok
    /\ probe.result.error.type = "BadRequestException"

\* C19: validateFacebookEvent fails with a BadRequestException whose message
\* contains 'Invalid Facebook event format' for every input whose source is
\* not 'facebook', whatever the other fields are, and validateTiktokEvent
\* with 'Invalid TikTok event format' for every input whose source is not
\* 'tiktok'.
C19_PerSourceValidatorRejectsOtherSource ==
  /\ (probe.method = "validateFacebookEvent"
        /\ ~(probe.input.t = "object" /\ probe.input.source = S("facebook"))) =>
       /\ ~probe.result.ok
       /\ probe.result.error.type = "BadRequestException"
       /\ \E m \in ZodMessages :
            probe.result.error.message = "Invalid Facebook event format: " \o m
  /\ (probe.method = "validateTiktokEvent"
        /\ ~(probe.input.t = "object" /\ probe.input.source = S("tiktok"))) =>
       /\ ~probe.result.ok
       /\ probe.result.error.type = "BadRequestException"
       /\ \E m \in ZodMessages :
            probe.result.error.message = "Invalid TikTok event format: " \o m

\* validateFacebookEvent rejected a complete TikTok event
C19_Witness ==
  /\ probe.method = "validateFacebookEvent"
  /\ probe.input = mockTiktokEvent
  /\ probe.result.error =
       BadRequestException("Invalid Facebook event format: invalid_literal: source")

\* the fields both shapes require
RequiredCommon(d, source) ==
  /\ d.t = "object"
  /\ d.eventId.t = "string" /\ d.timestamp.t = "string" /\ d.eventType.t = "string"
  /\ d.source = S(source)
  /\ d.funnelStage \in {S("top"), S("bottom")}
  /\ d.data.t = "object" /\ d.data.user.t = "object"
  /\ d.data.user.userId.t = "string"

\* JavaScript's typeof: NaN is of type number
TypeOf(x) == IF x.t = "nan" THEN "number" ELSE x.t

\* C20 as stated: a per-source validator accepts an input exactly when every
\* required field is present with its primitive type, age and followers
\* being of type number.
C20_AcceptsEveryNumberTypedValue ==
  /\ probe.method = "validateFacebookEvent" =>
       (probe.result.ok <=>
          LET d == probe.input IN
            /\ RequiredCommon(d, "facebook")
            /\ d.data.user.name.t = "string"
            /\ TypeOf(d.data.user.age) = "number"
            /\ d.data.user.gender \in {S("male"), S("female"), S("non-binary")}
            /\ d.data.user.location.t = "object"
            /\ d.data.user.location.country.t = "string"
            /\ d.data.user.location.city.t = "string")
  /\ probe.method = "validateTiktokEvent" =>
       (probe.result.ok <=>
          LET d == probe.input IN
            /\ RequiredCommon(d, "tiktok")
            /\ d.data.user.username.t = "string"
            /\ TypeOf(d.data.user.followers) = "number")

\* C20, amended: a per-source validator accepts an input exactly when every
\* required field is present with its primitive type, age and followers
\* being numbers other than NaN; a numeric-looking string for age or
\* followers is rejected, followers = 0 is accepted, and engagement may be
\* anything or absent.
C20_AcceptsExactlyTypedFields ==
  /\ probe.method = "validateFacebookEvent" =>
       (probe.result.ok <=>
          LET d == probe.input IN
            /\ RequiredCommon(d, "facebook")
            /\ d.data.user.name.t = "string"
            /\ TypeOf(d.data.user.age) = "number" /\ d.data.user.age # NaN
            /\ d.data.user.gender \in {S("male"), S("female"), S("non-binary")}
            /\ d.data.user.location.t = "object"
            /\ d.data.user.location.country.t = "string"
            /\ d.data.user.location.city.t = "string")
  /\ probe.method = "validateTiktokEvent" =>
       (probe.result.ok <=>
          LET d == probe.input IN
            /\ RequiredCommon(d, "tiktok")
            /\ d.data.user.username.t = "string"
            /\ TypeOf(d.data.user.followers) = "number"
            /\ d.data.user.followers # NaN)

\* a TikTok event with followers = 0 was accepted
C20_Witness ==
  /\ probe.method = "validateTiktokEvent"
  /\ probe.input = [mockTiktokEvent EXCEPT !.data.user.followers = N("0")]
  /\ probe.result.ok

\* C21: every invalid event submitted to processEvent is rejected with an
\* error whose message names the shape its source selects: 'Facebook event
\* format' for a payload with source 'facebook', 'TikTok event format' for
\* one with source 'tiktok'.
C21_RejectionNamesShape ==
  \A r \in Req :
    req[r].pc = "rejected" =>
      /\ (req[r].body.t = "object" /\ req[r].body.source = S("facebook")) =>
           \E m \in ZodMessages :
             req[r].response.error.message = "Invalid Facebook event format: " \o m
      /\ (req[r].body.t = "object" /\ req[r].body.source = S("tiktok")) =>
           \E m \in ZodMessages :
             req[r].response.error.message = "Invalid TikTok event format: " \o m

\* the label of a raw payload's property: its value when the payload has
\* one, the string 'unknown' otherwise
RawLabel(body, x) ==
  IF body.t = "object" /\ x.t \notin {"undefined", "null"} THEN LabelText(x) ELSE "unknown"

\* C22: on validation failure processEvent records exactly one failed
\* metric, labelled with the raw payload's source and eventType when it has
\* them and with 'unknown' otherwise, whatever kind of value the payload is,
\* and the caller receives the validation error.
C22_FailedMetricLabelsFromRawPayload ==
  \A r \in Req :
    req[r].pc = "rejected" =>
      /\ Types(calls[r]) = <<"failed">>
      /\ calls[r][1].labels =
           Labels(Absent, RawLabel(req[r].body, req[r].body.source),
                  RawLabel(req[r].body, req[r].body.eventType), Absent,
                  validateEvent(req[r].body).error.message)
      /\ req[r].response.kind = "error"
      /\ req[r].response.error = validateEvent(req[r].body).error

\* a string of exactly 9 characters, each a lowercase letter or a digit
IsSuffix9(str) ==
  /\ Len(str) = 9
  /\ \A i \in 1..Len(str) : \E d \in 0..35 : SubSeq(str, i, i) = Digit36(d)

\* C23: every generated correlation id has the form
\* gateway-<decimal unix milliseconds>-<suffix>, the suffix being exactly 9
\* characters that are lowercase letters or digits, for every value of the
\* random source.
C23_GeneratedIdFormat ==
  probe.method = "generateCorrelationId" =>
    LET id == probe.result.event.correlationId IN
      /\ id.t = "string"
      /\ \E now \in Times :
           LET head == "gateway-" \o ToString(now) \o "-" IN
             /\ Len(id.v) >= Len(head)
             /\ SubSeq(id.v, 1, Len(head)) = head
             /\ IsSuffix9(SubSeq(id.v, Len(head) + 1, Len(id.v)))

\* number of metric calls of one of the given types
CountTypes(cl, types) == Cardinality({i \in 1..Len(cl) : cl[i].type \in types})

\* a handler invocation for call r has started and has not settled
HandlerRunning(r) ==
  CountTypes(colCalls[r], {"accepted"}) > CountTypes(colCalls[r], {"processed", "failed"})

\* C24: within one subscription of one collector process at most one
\* handler invocation is in flight at any time; a message is handed to the
\* handler only after the previous invocation has completed or failed.
C24_OneHandlerPerSubscription ==
  /\ \A r1, r2 \in Req :
       (r1 # r2 /\ HandlerRunning(r1) /\ HandlerRunning(r2)) =>
         ~(/\ invocations[r1][Len(invocations[r1])] = invocations[r2][Len(invocations[r2])]
           /\ SubjectOf(r1) = SubjectOf(r2))
  /\ \A r \in Req :
       CountTypes(colCalls[r], {"accepted"})
         <= CountTypes(colCalls[r], {"processed", "failed"}) + 1

\* one message is with the handler while the next waits on the same
\* subscription
C24_Witness ==
  \E p \in Replicas, s \in Subjects :
    /\ loops[p][s].inflight # NoMsg
    /\ HandlerRunning(loops[p][s].inflight.req)
    /\ loops[p][s].pending # <<>>

\* handlers of two replicas run at the same time
ConcurrentAcrossReplicas ==
  \E r1, r2 \in Req :
    /\ r1 # r2 /\ HandlerRunning(r1) /\ HandlerRunning(r2)
    /\ invocations[r1][Len(invocations[r1])] # invocations[r2][Len(invocations[r2])]

\* C25: on shutdown disconnect stops the subscriptions from accepting new
\* messages, lets every handler invocation in flight run to completion and
\* only then releases the connection: once shutdown began no message is
\* routed to the process, and the connection is released, and the process
\* exits, only with no handler in flight.
C25_DrainBeforeRelease ==
  [][\A p \in Replicas : \A s \in Subjects :
       /\ phase[p] \in {"draining", "stopped", "exited"} =>
            Len(loops'[p][s].pending) <= Len(loops[p][s].pending)
       /\ (conn[p] # "null" /\ conn'[p] = "null") => loops[p][s].inflight = NoMsg
       /\ (phase[p] = "stopped" /\ phase'[p] = "exited") => loops[p][s].inflight = NoMsg
    ]_vars

\* the value set in the environment, or the default when nothing is set
Configured(env, default) == IF env.t = "undefined" THEN default ELSE IntOf(env)

\* C26: after a connection loss the client makes at most the configured
\* number of reconnect attempts, each after the configured wait (10
\* attempts and 1000 ms when nothing is configured), and stops retrying
\* when the ceiling is reached.
C26_ReconnectBoundedByConfig ==
  (probe.method = "connect" /\ probe.env.attempts # S("abc")
     /\ probe.env.timeWait # S("abc")) =>
    /\ probe.attempts <= Configured(probe.env.attempts, 10)
    /\ probe.waited # U => IntOf(probe.waited) = Configured(probe.env.timeWait, 1000)
    /\ probe.state = "closed" => probe.attempts = Configured(probe.env.attempts, 10)

\* every value of the validated event can be written as JSON: none is NaN
Representable(event) ==
  NaN \notin {event.data.engagement, event.data.user.age, event.data.user.followers}

C28_StreamFailureFailsStartup ==
  /\ [](\A p \in Replicas : subscriptions[p] # <<>> => streams # {})
  /\ [][\A p \in Replicas :
          (phase[p] = "connected" /\ phase'[p] # "connected" /\ envEvents' > envEvents)
            => phase'[p] = "exited"]_vars

\* C29: for every valid event saveEvent writes columns equal to the
\* event's own values: userFollowers is data.user.followers for TikTok
\* events, userAge is data.user.age for Facebook events, userName is the
\* name or username, and the correlationId column is the correlation id
\* of the envelope; a column is null only when the event has no such field.
C29_ColumnsEqualEventValues ==
  \A row \in events :
    LET event == req[row.req].event
        user == event.data.user
    IN /\ event.source = S("tiktok") =>
            /\ row.userFollowers = user.followers
            /\ row.userName = user.username
            /\ row.userAge = Null
       /\ event.source = S("facebook") =>
            /\ row.userAge = user.age
            /\ row.userName = user.name
            /\ row.userFollowers = Null
       /\ \E i \in PublishedBy(row.req) :
            row.correlationId = JSONParse(natsLog[i].payload).correlationId

\* C30: for every report request that ends in failure the controller has
\* recorded the request start and then the request failure, whatever the
\* cause; the count of started requests is never smaller than the count of
\* failed plus succeeded requests.
C30_FailureFollowsStart ==
  probe.method = "reports" =>
    /\ probe.last.error # NoError =>
         probe.last.calls = <<"recordRequestStart", "recordRequestFailure">>
    /\ \A t \in ReportTypes :
         probe.requestsTotal[t] >= probe.requestsFailed[t] + probe.succeeded[t]

\* C31: validateFilters rejects with 'From date cannot be later than to date'
\* exactly when both dates are given and from is strictly later than to;
\* equal dates are accepted; an unparseable date is rejected with an error;
\* absent dates stay undefined and the other fields are returned unchanged.
Given(x) == x # U
Unparseable(x) == Given(x) /\ DateOf(x) = 0
C31_ValidateFiltersContract ==
  probe.method = "validateFilters" =>
    LET f == probe.input
        r == probe.result
    IN /\ (r.error = Error("From date cannot be later than to date"))
            <=> (/\ Given(f.from) /\ Given(f.to)
                 /\ ~Unparseable(f.from) /\ ~Unparseable(f.to)
                 /\ DateOf(f.from) > DateOf(f.to))
       /\ (Given(f.from) /\ Given(f.to) /\ ~Unparseable(f.from)
             /\ DateOf(f.from) = DateOf(f.to)) => r.error = NoError
       /\ (Unparseable(f.from) \/ Unparseable(f.to)) => r.error # NoError
       /\ r.error = NoError =>
            /\ ~Given(f.from) => r.filters.from = U
            /\ ~Given(f.to) => r.filters.to = U
            /\ r.filters.source = f.source
            /\ r.filters.funnelStage = f.funnelStage
            /\ r.filters.eventType = f.eventType
            /\ r.filters.campaignId = f.campaignId

\* C32: once every concurrent processEvent call has completed, the gateway
\* counters are: accepted = calls that passed validation, processed = calls
\* whose publish succeeded, failed = calls rejected by validation + calls
\* whose publish failed; hence processed <= accepted and accepted =
\* processed + publish failures.  recordMetric ran twice per successful call
\* and once per validation-rejected call.
Completed(r) == req[r].pc \in {"responded", "rejected", "publishFailed"}
Ended(pcs) == Cardinality({r \in Req : req[r].pc \in pcs})
GatewayCount(type) == BagCardinality(counters[Gateway][type])
RecordMetricCalls(r) ==
  Cardinality({i \in 1..Len(calls[r]) : calls[r][i].type # "duration"})
C32_GatewayCountersAfterConcurrentCalls ==
  (\A r \in Req : req[r].pc = "idle" \/ Completed(r)) =>
    /\ GatewayCount("accepted") = Ended({"responded", "publishFailed"})
    /\ GatewayCount("processed") = Ended({"responded"})
    /\ GatewayCount("failed") = Ended({"rejected"}) + Ended({"publishFailed"})
    /\ GatewayCount("processed") <= GatewayCount("accepted")
    /\ GatewayCount("accepted") = GatewayCount("processed") + Ended({"publishFailed"})
    /\ \A r \in Req :
         /\ req[r].pc = "responded" => RecordMetricCalls(r) = 2
         /\ req[r].pc = "rejected" => RecordMetricCalls(r) = 1
C32_Witness ==
  /\ \A r \in Req : Completed(r)
  /\ Ended({"responded"}) = 1
  /\ Ended({"publishFailed"}) = 1
  /\ GatewayCount("accepted") = 2

\* C33: in EventProcessingService.processEvent the accepted metric is
\* recorded before the persistence sink is called; the processed metric and
\* the duration observation are recorded only after the sink call has
\* succeeded; a message whose sink call fails gets accepted and failed but
\* neither processed nor a duration observation.
CallTypes(cl) == [i \in 1..Len(cl) |-> cl[i].type]
SinkRunning(r) == \E p \in Replicas, s \in Subjects : loops[p][s].inflight.req = r
RowsOf(r) == {row \in events : row.req = r}
C33_MetricsOrderedAroundSink ==
  [][\A r \in Req :
       LET before == CallTypes(colCalls[r])
           after == CallTypes(colCalls[r])'
       IN after # before =>
            \/ /\ after = Append(before, "accepted")
               /\ ~SinkRunning(r) /\ SinkRunning(r)'
               /\ events' = events
            \/ /\ after = before \o <<"processed", "duration">>
               /\ before[Len(before)] = "accepted"
               /\ SinkRunning(r) /\ ~SinkRunning(r)'
               /\ RowsOf(r)' # {} /\ life'[r] = "Persisted"
            \/ /\ after = before \o <<"failed">>
               /\ before[Len(before)] = "accepted"
               /\ SinkRunning(r) /\ ~SinkRunning(r)'
               /\ events' = events /\ life'[r] = "Failed"]_vars
C33_Witness ==
  \E r \in Req :
    /\ CallTypes(colCalls[r]) = <<"accepted", "failed">>
    /\ RowsOf(r) = {}
    /\ \E q \in Req : CallTypes(colCalls[q]) = <<"accepted", "processed", "duration">>

\* C34: the collector hands to the handler and to the persistence sink
\* exactly the correlationId found in the received envelope, and undefined
\* when the envelope has none; it never generates, replaces or alters one.
C34_CorrelationIdPassedUnchanged ==
  [][\A p \in Replicas, s \in Subjects :
       LET msg == loops[p][s].inflight IN
         (msg # NoMsg /\ loops'[p][s].inflight = NoMsg /\ events' # events) =>
           \E row \in events' \ events :
             /\ row.req = msg.req
             /\ row.correlationId = JSONParse(msg.payload).correlationId]_vars
C34_Witness ==
  /\ \E row \in events : row.correlationId = U
  /\ \E row \in events : row.correlationId = S("corr-1")

\* C35: a failure inside the metrics sink never changes the outcome of event
\* handling: recordMetric and recordProcessingDuration never throw for any
\* metric type, value or label set, so the gateway's processEvent still
\* publishes and returns success, and the collector's still persists.
C35_MetricFailureNeverChangesOutcome ==
  /\ probe.method = "recordMetric" => ~probe.result.threw
  /\ probe.method = "processEvent" => probe.result.sunk /\ probe.result.success
C35_Witness ==
  /\ probe.method = "processEvent"
  /\ probe.input.service = "gateway"
  /\ probe.input.broken = MetricTypes
  /\ probe.result.success

\* C36: correlationId and receivedAt of every published envelope are the
\* system-assigned values (the supplied header or a generated id, and the
\* gateway's receipt time); a raw payload carrying correlationId, receivedAt
\* or any other key outside the event schema cannot set or override them,
\* and two payloads that differ only in such keys produce envelopes with
\* identical event fields.
SchemaFields(b) ==
  <<b.eventId, b.timestamp, b.source, b.funnelStage, b.eventType, b.data.engagement,
    b.data.user.userId>>
    \o (IF b.source = S("facebook")
          THEN <<b.data.user.name, b.data.user.age, b.data.user.gender,
                 b.data.user.location.country, b.data.user.location.city>>
          ELSE <<b.data.user.username, b.data.user.followers>>)
EventFields(e) == [e EXCEPT !.correlationId = U, !.receivedAt = U]
GeneratedIds == {generateCorrelationId(now, suffix) : now \in Times, suffix \in Suffixes}
C36_EnvelopeFieldsSystemAssigned ==
  \A i \in 1..Len(natsLog) :
    LET e == JSONParse(natsLog[i].payload)
        r == natsLog[i].req
    IN /\ req[r].header # U => e.correlationId = req[r].header
       /\ req[r].header = U => e.correlationId \in GeneratedIds
       /\ e.receivedAt \in {S(ToString(now)) : now \in Times}
       /\ \A j \in 1..Len(natsLog) :
            SchemaFields(req[r].body) = SchemaFields(req[natsLog[j].req].body) =>
              EventFields(e) = EventFields(JSONParse(natsLog[j].payload))
C36_Witness ==
  \E i, j \in 1..Len(natsLog) :
    LET a == req[natsLog[i].req]
        b == req[natsLog[j].req]
    IN /\ a.body = mockFacebookEvent
       /\ b.body.correlationId = S("spoofed") /\ b.header = U
       /\ SchemaFields(a.body) = SchemaFields(b.body)

\* C37: onModuleInit registers its two subscriptions one after the other;
\* if the second registration fails, onModuleInit rejects while the first
\* subscription stays registered and keeps delivering messages to its
\* handler.
SecondRegistrationFails(p) == phase[p] = "sub1" /\ phase'[p] = "exited"
C37_FirstSubscriptionKeepsDelivering ==
  [][\A p \in Replicas :
       SecondRegistrationFails(p) =>
         /\ subscriptions'[p] = subscriptions[p]
         /\ \A s \in Subjects :
              loops[p][s].state = "active" => loops'[p][s].state = "active"]_vars

\* C37 (amended): the two subscriptions are registered one after the other;
\* if the second registration fails, onModuleInit rejects and nothing
\* unsubscribes the first subscription, but the rejection reaches the catch
\* of bootstrap, which ends the process: the first subscription's loop ends
\* with it and no handler of that collector is invoked afterwards.
C37_SecondFailureEndsProcess ==
  [][\A p \in Replicas :
       /\ Len(subscriptions'[p]) > Len(subscriptions[p]) =>
            Len(subscriptions'[p]) = Len(subscriptions[p]) + 1
       /\ SecondRegistrationFails(p) =>
            /\ subscriptions'[p] = subscriptions[p]
            /\ Len(subscriptions[p]) = 1
            /\ \A s \in Subjects :
                 /\ loops'[p][s].state = "closed"
                 /\ loops'[p][s].pending = <<>>
                 /\ loops'[p][s].inflight = NoMsg
       /\ phase[p] = "exited" =>
            \A r \in Req :
              invocations'[r] # invocations[r] =>
                invocations'[r][Len(invocations'[r])] # p]_vars
C37_Witness ==
  \E p \in Replicas :
    /\ phase[p] = "exited"
    /\ Len(subscriptions[p]) = 1
    /\ loops[p][subscriptions[p][1]].state = "closed"

\* C38: the subscription registry of NatsService changes only through
\* subscribe and disconnect: each successful subscribe / subscribeToStream
\* adds exactly one subscription; a subscribe that fails for lack of a
\* connection leaves the registry unchanged; disconnect empties the registry
\* and clears the connection, after which every publish and subscribe call
\* fails with 'NATS connection not established' and isConnected() is false.
Called(call) == Service'.calls = Service.calls + 1 /\ Service'.last.call = call
SubscribeCalls == {"subscribe", "subscribeToStream"}
PublishCalls == {"publish", "publishToStream"}
C38_RegistryFrame ==
  [][LET a == Service
         b == Service'
     IN /\ b.subscriptions # a.subscriptions =>
             \E call \in SubscribeCalls \cup {"onModuleDestroy"} : Called(call)
        /\ \A call \in SubscribeCalls :
             Called(call) =>
               /\ b.last.error = NoError =>
                    Len(b.subscriptions) = Len(a.subscriptions) + 1
               /\ a.connection = "null" =>
                    /\ b.subscriptions = a.subscriptions
                    /\ b.last.error = Error("NATS connection not established")
        /\ (Called("onModuleDestroy") /\ a.connection # "null") =>
             b.subscriptions = <<>> /\ b.connection = "null"
        /\ a.destroyed =>
             /\ \A call \in SubscribeCalls \cup PublishCalls :
                  Called(call) => b.last.error = Error("NATS connection not established")
             /\ Called("isConnected") => b.last.value = S("false")]_vars

====
